---------------------------- MODULE Spec2Model ----------------------------
(***************************************************************************)
(* QA-mentor bot: the per-user navigation cursor (qa_bot.py handlers) and  *)
(* the retrieval pipeline (search_in_knowledge_base followed by            *)
(* process_search_results, with the Oracle calls of ai_helper.py).         *)
(*                                                                         *)
(* Texts are sequences of one-character strings.  Question indices are     *)
(* 0-based as in the code; TLA+ sequences are 1-based, so content[i] of    *)
(* the code is content[i + 1] here.  Scores are integers (every weight of  *)
(* the scorer is an integer-valued float).                                 *)
(***************************************************************************)
EXTENDS Integers, Sequences, FiniteSets, TLC

VARIABLES TOPIC_ORDER, TOPICS, SYNONYMS, config, user_sessions, reply, pipe, session_ids, detached, threads, inbox, call, process

vars == <<TOPIC_ORDER, TOPICS, SYNONYMS, config, user_sessions, reply, pipe,
          session_ids, detached, threads, inbox, call, process>>

(***************************************************************************)
(* Bounds of the model.                                                    *)
(***************************************************************************)
MaxTopics == 3
MaxEntries == 3
MaxQueryLen == 3
MaxMessages == 2
MaxPieces == 2
MaxWords == 3
MaxExcess == 2

Users == {"u1", "u2"}

(***************************************************************************)
(* Program constants (config.py).                                          *)
(***************************************************************************)
MIN_RELEVANCE_SCORE == 5
HIGH_RELEVANCE_SCORE == 8
MAX_RESULTS == 3
MAX_QUERY_LENGTH == 500
MAX_SEARCH_LENGTH == 300

(***************************************************************************)
(* Characters.  \w of the re module: letters, digits and the underscore;   *)
(* \s: whitespace.  Everything else is punctuation.  A character is a      *)
(* string; a Cyrillic letter is written "cy_" and its transliteration, its *)
(* capital "CY_" and the same, a pictogram "emoji_" and its name, and the  *)
(* null character "NUL" (the backtick is "backtick").                      *)
(***************************************************************************)
LowerLetters ==
    { "a", "b", "c", "d", "e", "f", "g", "h", "i", "j", "k", "l", "m", "n",
      "o", "p", "q", "r", "s", "t", "u", "v", "w", "x", "y", "z" }

UpperLetters == {"A", "B"}

CyrillicLower ==
    { "cy_a", "cy_b", "cy_c", "cy_ch", "cy_d", "cy_e", "cy_eh", "cy_g",
      "cy_h", "cy_i", "cy_j", "cy_k", "cy_l", "cy_m", "cy_n", "cy_o",
      "cy_p", "cy_r", "cy_s", "cy_sch", "cy_sh", "cy_soft", "cy_t", "cy_u",
      "cy_v", "cy_y", "cy_ya", "cy_yu", "cy_z", "cy_zh" }

CyrillicUpper == { "CY_k", "CY_n", "CY_p", "CY_s", "CY_z" }

Digits == {"7"}
Whitespace == {" "}

\* str.lower(), one character
Lower(c) ==
    CASE c = "A" -> "a"
      [] c = "B" -> "b"
      [] c = "CY_k" -> "cy_k"
      [] c = "CY_n" -> "cy_n"
      [] c = "CY_p" -> "cy_p"
      [] c = "CY_s" -> "cy_s"
      [] c = "CY_z" -> "cy_z"
      [] OTHER -> c

IsSpace(c) == c \in Whitespace

IsWord(c) ==
    c \in LowerLetters \cup UpperLetters \cup CyrillicLower \cup CyrillicUpper
          \cup Digits \cup {"_"}

(***************************************************************************)
(* String helpers on sequences of characters.                              *)
(***************************************************************************)
Min(a, b) == IF a < b THEN a ELSE b

\* str.lower()
LowerText(text) == [i \in 1..Len(text) |-> Lower(text[i])]

\* re.sub(r'[^\w\s]', ' ', text)
SubPunct(text) ==
    [i \in 1..Len(text) |-> IF IsWord(text[i]) \/ IsSpace(text[i]) THEN text[i] ELSE " "]

\* re.sub(r'\s+', ' ', text): every maximal run of whitespace becomes one space
RECURSIVE CollapseSpaces(_)
CollapseSpaces(text) ==
    IF text = <<>> THEN <<>>
    ELSE IF IsSpace(Head(text))
         THEN IF Len(text) >= 2 /\ IsSpace(text[2])
              THEN CollapseSpaces(Tail(text))
              ELSE <<" ">> \o CollapseSpaces(Tail(text))
         ELSE <<Head(text)>> \o CollapseSpaces(Tail(text))

RECURSIVE LStrip(_)
LStrip(text) ==
    IF text # <<>> /\ IsSpace(Head(text)) THEN LStrip(Tail(text)) ELSE text

RECURSIVE RStrip(_)
RStrip(text) ==
    IF text # <<>> /\ IsSpace(text[Len(text)])
    THEN RStrip(SubSeq(text, 1, Len(text) - 1))
    ELSE text

\* str.strip()
Strip(text) == RStrip(LStrip(text))

\* str.split(): the maximal runs of non-whitespace characters, in order
RECURSIVE Split(_)
Split(text) ==
    LET t == LStrip(text) IN
    IF t = <<>> THEN <<>>
    ELSE LET n == CHOOSE k \in 1..Len(t) :
                      /\ \A i \in 1..k : ~IsSpace(t[i])
                      /\ (k = Len(t) \/ IsSpace(t[k + 1]))
         IN <<SubSeq(t, 1, n)>> \o Split(SubSeq(t, n + 1, Len(t)))

\* ' '.join(words)
RECURSIVE Join(_)
Join(words) ==
    IF words = <<>> THEN <<>>
    ELSE IF Len(words) = 1 THEN words[1]
    ELSE words[1] \o <<" ">> \o Join(Tail(words))

\* sub in text (substring test; the empty string is in every string)
Contains(sub, text) ==
    \E i \in 0..(Len(text) - Len(sub)) : SubSeq(text, i + 1, i + Len(sub)) = sub

\* x in list
InList(x, list) == \E i \in 1..Len(list) : list[i] = x

\* words[:n]
Prefix(s, n) == SubSeq(s, 1, Min(n, Len(s)))

\* faulty variant: the text is stripped before the punctuation is replaced
normalize_text_strips_first(text) == CollapseSpaces(SubPunct(Strip(LowerText(text))))

normalize_text(text) == Strip(CollapseSpaces(SubPunct(LowerText(text))))

(***************************************************************************)
(* The knowledge base (knowledge_base.py: TOPICS, TOPIC_ORDER, SYNONYMS).  *)
(* TOPIC_ORDER is a prefix of TopicPool and the content of a topic is a    *)
(* prefix of its EntryPool; which prefixes is chosen once, at load time.   *)
(***************************************************************************)
TopicPool == <<"start", "basics", "bugs", "final">>

Entry(q, a, kws) == [question |-> q, answer |-> a, keywords |-> kws]

TopicName(t) ==
    CASE t = "start"  -> <<"S">>
      [] t = "basics" -> <<"T">>
      [] t = "bugs"   -> <<"B", "!">>
      [] OTHER        -> <<"c">>

EntryPool(t) ==
    CASE t = "start" ->
           << Entry(<<"c", "?">>, <<"c">>, <<>>),
              Entry(<<"s", " ", "c">>, <<"c">>, <<>>),
              Entry(<<"s", "?">>, <<"s">>, <<>>) >>
      [] t = "basics" ->
           << Entry(<<"A", "?">>, <<"c">>, <<>>),
              Entry(<<"c", "c">>, <<"c">>, << <<"B", "b">> >>),
              Entry(<<"t", " ", "c">>, <<"t">>, <<>>) >>
      [] t = "bugs" ->
           << Entry(<<"c", " ", "t">>, <<"c">>, <<>>),
              Entry(<<"t", "!">>, <<"a">>, <<>>),
              Entry(<<"t", "t">>, <<"t", "s">>, <<>>) >>
      [] OTHER ->
           << Entry(<<"7", "?">>, <<"c">>, <<>>),
              Entry(<<"t">>, <<"a", " ", "b">>, <<>>),
              Entry(<<"c">>, <<"c">>, << <<"a">> >>) >>

\* SYNONYMS: one-directional, word -> list of words
SynonymKeys == { <<"b">> }

SynonymTable == [w \in SynonymKeys |-> << <<"a">> >>]

NumTopics == Min(MaxTopics, Len(TopicPool))

NumEntries(t) == Min(MaxEntries, Len(EntryPool(t)))

Range(s) == {s[i] : i \in 1..Len(s)}

\* the TOPICS dictionary for a choice of content lengths
MakeTopics(order, lens) ==
    [t \in Range(order) |->
        [name |-> TopicName(t), content |-> SubSeq(EntryPool(t), 1, lens[t])]]

KnowledgeBases ==
    UNION { { <<SubSeq(TopicPool, 1, n), lens>> :
              lens \in { l \in [Range(SubSeq(TopicPool, 1, n)) -> 1..MaxEntries] :
                           \A t \in DOMAIN l : l[t] <= NumEntries(t) } } :
            n \in 1..NumTopics }

FullKnowledgeBase ==
    <<SubSeq(TopicPool, 1, NumTopics), [t \in Range(SubSeq(TopicPool, 1, NumTopics)) |-> NumEntries(t)]>>

(***************************************************************************)
(* Configuration (config.py).  AI_CONFIG['enabled'] is bool(OPENAI_API_KEY)*)
(* and ai_helper.client is created only when it is enabled, and may fail.  *)
(***************************************************************************)
\* SECURITY_CONFIG as config.py sets it
SecurityDefaults ==
    [ max_query_length |-> MAX_QUERY_LENGTH, max_search_length |-> MAX_SEARCH_LENGTH,
      enable_prompt_injection_detection |-> TRUE, enable_input_sanitization |-> TRUE ]

\* the AI and search settings, with the security settings of config.py
Configs ==
    { c \in [ ai_enabled : BOOLEAN, client : BOOLEAN, use_fallback : BOOLEAN,
              use_ai_relevance_check : BOOLEAN,
              min_relevance_score : {MIN_RELEVANCE_SCORE},
              high_relevance_score : {HIGH_RELEVANCE_SCORE},
              max_results : {MAX_RESULTS},
              max_query_length : {SecurityDefaults.max_query_length},
              max_search_length : {SecurityDefaults.max_search_length},
              enable_prompt_injection_detection :
                  {SecurityDefaults.enable_prompt_injection_detection},
              enable_input_sanitization : {SecurityDefaults.enable_input_sanitization} ] :
        c.client => c.ai_enabled }

\* the configuration of test_logic.py: no OPENAI_API_KEY, every other default
DefaultConfig ==
    [ ai_enabled |-> FALSE, client |-> FALSE, use_fallback |-> TRUE,
      use_ai_relevance_check |-> TRUE,
      min_relevance_score |-> MIN_RELEVANCE_SCORE,
      high_relevance_score |-> HIGH_RELEVANCE_SCORE,
      max_results |-> MAX_RESULTS,
      max_query_length |-> SecurityDefaults.max_query_length,
      max_search_length |-> SecurityDefaults.max_search_length,
      enable_prompt_injection_detection |-> SecurityDefaults.enable_prompt_injection_detection,
      enable_input_sanitization |-> SecurityDefaults.enable_input_sanitization ]

\* an OPENAI_API_KEY is set and the client was created
EnabledConfig == [DefaultConfig EXCEPT !.ai_enabled = TRUE, !.client = TRUE]

\* the two security switches: sanitization off, or on with detection on or off
SecurityConfigs ==
    { [EnabledConfig EXCEPT !.enable_input_sanitization = FALSE] }
    \cup { [EnabledConfig EXCEPT !.enable_prompt_injection_detection = detection] :
             detection \in BOOLEAN }

(***************************************************************************)
(* Sessions (user_sessions: a dictionary user_id -> session).              *)
(***************************************************************************)
NewSession ==
    [current_topic |-> "start", current_question_index |-> 0, previous_state |-> "None"]

\* faulty variant: the session is created anew at every call
get_user_session_always_creates(sessions, user_id) ==
    [u \in DOMAIN sessions \cup {user_id} |-> IF u = user_id THEN NewSession ELSE sessions[u]]

\* get_user_session: the dictionary after the call (the session is created if absent)
get_user_session(sessions, user_id) ==
    IF user_id \in DOMAIN sessions THEN sessions ELSE sessions @@ (user_id :> NewSession)

\* TOPIC_ORDER.index(t), 1-based; 0 stands for ValueError
TopicIndex(t) ==
    IF \E i \in 1..Len(TOPIC_ORDER) : TOPIC_ORDER[i] = t
    THEN CHOOSE i \in 1..Len(TOPIC_ORDER) :
            TOPIC_ORDER[i] = t /\ \A j \in 1..(i - 1) : TOPIC_ORDER[j] # t
    ELSE 0

\* len(TOPICS[t]["content"])
ContentLen(t) == Len(TOPICS[t].content)

\* faulty variant: the last element cannot be read
ValidListIndex_no_last(i, n) == -n <= i /\ i < n - 1

\* a Python list index i reads an element iff -len <= i < len
ValidListIndex(i, n) == -n <= i /\ i < n

\* show_question: what the user gets for the session's position;
\* TOPICS[topic_key] raises KeyError and content[question_index] IndexError
show_question(sessions, user_id) ==
    LET s == sessions[user_id] IN
    IF s.current_topic \in DOMAIN TOPICS
       /\ ValidListIndex(s.current_question_index, ContentLen(s.current_topic))
    THEN "question"
    ELSE "error"

SetPosition(sessions, user_id, topic, index) ==
    [sessions EXCEPT ![user_id].current_topic = topic,
                     ![user_id].current_question_index = index]

Handled(sessions, user_id, op, signal) ==
    /\ user_sessions' = sessions
    /\ reply' = [user |-> user_id, op |-> op, signal |-> signal]
    /\ UNCHANGED <<TOPIC_ORDER, TOPICS, SYNONYMS, config, pipe>>
    /\ UNCHANGED <<session_ids, detached, threads, inbox, call, process>>

\* faulty variant: handlers also run while the module is being imported
Idle_any_time == pipe.pc = "idle"

\* a handler runs only when no other handler is running, and only from
\* infinity_polling, which the process reaches when its imports have succeeded
Idle == pipe.pc = "idle" /\ process = "polling"

\* /start, and the Start button (start_over calls send_welcome)
send_welcome(user_id) ==
    /\ Idle
    /\ LET s1 == get_user_session(user_sessions, user_id)
           s2 == SetPosition(s1, user_id, "start", 0)
       IN Handled(s2, user_id, "Start", show_question(s2, user_id))

\* faulty variant: the question index is kept
go_home_keeps_index(user_id) ==
    /\ Idle
    /\ LET s1 == get_user_session(user_sessions, user_id)
           s2 == SetPosition(s1, user_id, "start", s1[user_id].current_question_index)
       IN Handled(s2, user_id, "Home", show_question(s2, user_id))

\* the Home button
go_home(user_id) ==
    /\ Idle
    /\ LET s1 == get_user_session(user_sessions, user_id)
           s2 == SetPosition(s1, user_id, "start", 0)
       IN Handled(s2, user_id, "Home", show_question(s2, user_id))

\* the PrevTopic button
go_back(user_id) ==
    /\ Idle
    /\ LET s1 == get_user_session(user_sessions, user_id)
           current_index == TopicIndex(s1[user_id].current_topic)
       IN IF current_index = 0
          THEN Handled(s1, user_id, "PrevTopic", "error")
          ELSE IF current_index > 1
          THEN LET s2 == SetPosition(s1, user_id, TOPIC_ORDER[current_index - 1], 0)
               IN Handled(s2, user_id, "PrevTopic", show_question(s2, user_id))
          ELSE Handled(s1, user_id, "PrevTopic", "already_at_start")

\* faulty variant: the boundary message comes with a jump to the first topic
prev_question_resets(user_id) ==
    /\ Idle
    /\ LET s1 == get_user_session(user_sessions, user_id)
           idx == s1[user_id].current_question_index
       IN IF idx > 0
          THEN LET s2 == SetPosition(s1, user_id, s1[user_id].current_topic, idx - 1)
               IN Handled(s2, user_id, "PrevQuestion", show_question(s2, user_id))
          ELSE Handled(SetPosition(s1, user_id, "start", 0), user_id,
                       "PrevQuestion", "first_question")

\* faulty variant: the index goes back to 0 instead of back by one
prev_question_to_first(user_id) ==
    /\ Idle
    /\ LET s1 == get_user_session(user_sessions, user_id)
           idx == s1[user_id].current_question_index
       IN IF idx > 0
          THEN LET s2 == SetPosition(s1, user_id, s1[user_id].current_topic, 0)
               IN Handled(s2, user_id, "PrevQuestion", show_question(s2, user_id))
          ELSE Handled(s1, user_id, "PrevQuestion", "first_question")

\* the PrevQuestion button
prev_question(user_id) ==
    /\ Idle
    /\ LET s1 == get_user_session(user_sessions, user_id)
           idx == s1[user_id].current_question_index
       IN IF idx > 0
          THEN LET s2 == SetPosition(s1, user_id, s1[user_id].current_topic, idx - 1)
               IN Handled(s2, user_id, "PrevQuestion", show_question(s2, user_id))
          ELSE Handled(s1, user_id, "PrevQuestion", "first_question")

\* faulty variant: the question index is kept
next_topic_keeps_index(user_id) ==
    /\ Idle
    /\ LET s1 == get_user_session(user_sessions, user_id)
           current_index == TopicIndex(s1[user_id].current_topic)
       IN IF current_index = 0
          THEN Handled(s1, user_id, "NextTopic", "error")
          ELSE IF current_index < Len(TOPIC_ORDER)
          THEN LET s2 == SetPosition(s1, user_id, TOPIC_ORDER[current_index + 1],
                                     s1[user_id].current_question_index)
               IN Handled(s2, user_id, "NextTopic", show_question(s2, user_id))
          ELSE Handled(s1, user_id, "NextTopic", "course_complete")

\* the NextTopic button
next_topic(user_id) ==
    /\ Idle
    /\ LET s1 == get_user_session(user_sessions, user_id)
           current_index == TopicIndex(s1[user_id].current_topic)
       IN IF current_index = 0
          THEN Handled(s1, user_id, "NextTopic", "error")
          ELSE IF current_index < Len(TOPIC_ORDER)
          THEN LET s2 == SetPosition(s1, user_id, TOPIC_ORDER[current_index + 1], 0)
               IN Handled(s2, user_id, "NextTopic", show_question(s2, user_id))
          ELSE Handled(s1, user_id, "NextTopic", "course_complete")

\* faulty variant: the comparison is off by one
is_last_question_off_by_one(question_index, content_len) == question_index > content_len - 1

\* is_last_question = question_index >= len(topic["content"]) - 1
is_last_question(question_index, content_len) == question_index >= content_len - 1

\* faulty variant: after the last question of the last topic the course
\* starts again
handle_text_continue_wraps(user_id) ==
    /\ Idle
    /\ LET s1 == get_user_session(user_sessions, user_id)
           topic_key == s1[user_id].current_topic
           idx == s1[user_id].current_question_index
       IN IF topic_key \notin DOMAIN TOPICS
          THEN Handled(s1, user_id, "Advance", "error")
          ELSE IF is_last_question(idx, ContentLen(topic_key))
          THEN LET current_index == TopicIndex(topic_key) IN
               IF current_index = 0
               THEN Handled(s1, user_id, "Advance", "error")
               ELSE LET s2 == SetPosition(s1, user_id,
                                          TOPIC_ORDER[(current_index % Len(TOPIC_ORDER)) + 1], 0)
                    IN Handled(s2, user_id, "Advance", show_question(s2, user_id))
          ELSE LET s2 == SetPosition(s1, user_id, topic_key, idx + 1)
               IN Handled(s2, user_id, "Advance", show_question(s2, user_id))

\* handle_text, a text with a continue word (Advance)
handle_text_continue(user_id) ==
    /\ Idle
    /\ LET s1 == get_user_session(user_sessions, user_id)
           topic_key == s1[user_id].current_topic
           idx == s1[user_id].current_question_index
       IN IF topic_key \notin DOMAIN TOPICS
          THEN Handled(s1, user_id, "Advance", "error")
          ELSE IF is_last_question(idx, ContentLen(topic_key))
          THEN LET current_index == TopicIndex(topic_key) IN
               IF current_index = 0
               THEN Handled(s1, user_id, "Advance", "error")
               ELSE IF current_index < Len(TOPIC_ORDER)
               THEN LET s2 == SetPosition(s1, user_id, TOPIC_ORDER[current_index + 1], 0)
                    IN Handled(s2, user_id, "Advance", show_question(s2, user_id))
               ELSE Handled(s1, user_id, "Advance", "course_complete")
          ELSE LET s2 == SetPosition(s1, user_id, topic_key, idx + 1)
               IN Handled(s2, user_id, "Advance", show_question(s2, user_id))

\* faulty variant: the preceding topic is entered at its first question
handle_text_back_to_first(user_id) ==
    /\ Idle
    /\ LET s1 == get_user_session(user_sessions, user_id)
           idx == s1[user_id].current_question_index
       IN IF idx > 0
          THEN LET s2 == SetPosition(s1, user_id, s1[user_id].current_topic, idx - 1)
               IN Handled(s2, user_id, "Retreat", show_question(s2, user_id))
          ELSE LET current_index == TopicIndex(s1[user_id].current_topic) IN
               IF current_index = 0
               THEN Handled(s1, user_id, "Retreat", "error")
               ELSE IF current_index > 1
               THEN LET s2 == SetPosition(s1, user_id, TOPIC_ORDER[current_index - 1], 0)
                    IN Handled(s2, user_id, "Retreat", show_question(s2, user_id))
               ELSE Handled(s1, user_id, "Retreat", "already_at_start")

\* handle_text, a text with a back word and no continue word (Retreat)
handle_text_back(user_id) ==
    /\ Idle
    /\ LET s1 == get_user_session(user_sessions, user_id)
           idx == s1[user_id].current_question_index
       IN IF idx > 0
          THEN LET s2 == SetPosition(s1, user_id, s1[user_id].current_topic, idx - 1)
               IN Handled(s2, user_id, "Retreat", show_question(s2, user_id))
          ELSE LET current_index == TopicIndex(s1[user_id].current_topic) IN
               IF current_index = 0
               THEN Handled(s1, user_id, "Retreat", "error")
               ELSE IF current_index > 1
               THEN LET prev_topic == TOPIC_ORDER[current_index - 1]
                        s2 == SetPosition(s1, user_id, prev_topic, ContentLen(prev_topic) - 1)
                    IN Handled(s2, user_id, "Retreat", show_question(s2, user_id))
               ELSE Handled(s1, user_id, "Retreat", "already_at_start")

Navigate ==
    \E user_id \in Users :
        \/ send_welcome(user_id)
        \/ go_home(user_id)
        \/ go_back(user_id)
        \/ prev_question(user_id)
        \/ next_topic(user_id)
        \/ handle_text_continue(user_id)
        \/ handle_text_back(user_id)

(***************************************************************************)
(* Handlers on worker threads.  Above, a handler is one step; here it is   *)
(* the sequence of its statements, so that the statements of two handlers  *)
(* interleave.  A session is a dictionary object: session_ids[u] is the    *)
(* identity of the object stored under u in user_sessions and              *)
(* user_sessions[u] its value; detached holds the objects that are no      *)
(* longer in user_sessions but still referenced by a running handler.      *)
(* The object created by thread t for user u has the identity <<t, u>>: t  *)
(* creates at most one, since the key u stays in the dictionary afterwards.*)
(***************************************************************************)
Threads == {"t1", "t2"}

NoObject == <<>>

\* a thread's handler frame: its position, its message and its local variables
IdleThread ==
    [pc |-> "idle", user |-> "none", op |-> "none", session |-> NoObject,
     in_show |-> FALSE, topic_key |-> "none", question_index |-> 0,
     new_topic |-> "none", new_index |-> 0, signal |-> "none", handled |-> 0]

\* the navigation handlers; send_welcome and go_home are the same statements
NavigationOps == {"Home", "PrevTopic", "PrevQuestion", "NextTopic", "Advance", "Retreat"}

World == [sessions |-> user_sessions, ids |-> session_ids, detached |-> detached]

\* the dictionary object a reference points to
Deref(w, u, ref) ==
    IF u \in DOMAIN w.ids /\ w.ids[u] = ref THEN w.sessions[u] ELSE w.detached[ref]

\* faulty variant: every session of the dictionary is one shared object
StoreField_shared(w, u, ref, field, value) ==
    [w EXCEPT !.sessions = [x \in DOMAIN w.sessions |-> [w.sessions[x] EXCEPT ![field] = value]]]

\* session[field] = value, through a reference
StoreField(w, u, ref, field, value) ==
    IF u \in DOMAIN w.ids /\ w.ids[u] = ref
    THEN [w EXCEPT !.sessions[u][field] = value]
    ELSE [w EXCEPT !.detached[ref][field] = value]

\* the handler sends its last message and returns (the worker catches an
\* exception); signal keeps what the thread's last handler reported
Finish(th, w, signal) ==
    [th |-> [IdleThread EXCEPT !.signal = signal, !.handled = th.handled], w |-> w]

Goto(th, w, pc) == [th |-> [th EXCEPT !.pc = pc], w |-> w]

\* get_user_session, line 18: if user_id not in user_sessions
get_user_session_test(th, w) ==
    IF th.user \notin DOMAIN w.sessions
    THEN Goto(th, w, "get_user_session:19")
    ELSE Goto(th, w, "get_user_session:24")

\* get_user_session, lines 19-23: user_sessions[user_id] = {...}; the object
\* that was stored under the key, if any, leaves the dictionary
get_user_session_create(t, th, w) ==
    LET u == th.user
        keys == DOMAIN w.sessions \cup {u}
        det == IF u \in DOMAIN w.sessions
               THEN w.detached @@ (w.ids[u] :> w.sessions[u])
               ELSE w.detached
    IN Goto(th, [sessions |-> [x \in keys |-> IF x = u THEN NewSession ELSE w.sessions[x]],
                 ids |-> [x \in keys |-> IF x = u THEN <<t, u>> ELSE w.ids[x]],
                 detached |-> det],
            "get_user_session:24")

\* the statement after session = get_user_session(user_id), by handler
AfterGetSession(th) ==
    IF th.in_show THEN [th EXCEPT !.pc = "show_question:308"]
    ELSE CASE th.op = "Home" ->
                [th EXCEPT !.pc = "store_topic", !.new_topic = "start", !.new_index = 0]
           [] th.op \in {"PrevTopic", "NextTopic", "Advance"} -> [th EXCEPT !.pc = "load_topic"]
           [] OTHER -> [th EXCEPT !.pc = "load_index"]

\* get_user_session, line 24: return user_sessions[user_id]
get_user_session_return(th, w) ==
    [th |-> AfterGetSession([th EXCEPT !.session = w.ids[th.user]]), w |-> w]

\* the move to a neighbouring topic, or the boundary message
ToTopic(th, w, current_index, step, new_index, boundary) ==
    IF current_index = 0 THEN Finish(th, w, "error")
    ELSE IF 1 <= current_index + step /\ current_index + step <= Len(TOPIC_ORDER)
    THEN [th |-> [th EXCEPT !.pc = "store_topic",
                            !.new_topic = TOPIC_ORDER[current_index + step],
                            !.new_index = new_index],
          w |-> w]
    ELSE Finish(th, w, boundary)

\* the statement that reads session["current_topic"]:
\* go_back 516, next_topic 541, handle_text 596 and 629
load_topic(th, w) ==
    LET topic == Deref(w, th.user, th.session).current_topic IN
    CASE th.op = "PrevTopic" -> ToTopic(th, w, TopicIndex(topic), -1, 0, "already_at_start")
      [] th.op = "NextTopic" -> ToTopic(th, w, TopicIndex(topic), 1, 0, "course_complete")
      [] th.op = "Advance" ->
            [th |-> [th EXCEPT !.pc = "load_index", !.topic_key = topic], w |-> w]
      [] th.op = "Retreat" ->
            IF TopicIndex(topic) > 1
            THEN ToTopic(th, w, TopicIndex(topic), -1,
                         ContentLen(TOPIC_ORDER[TopicIndex(topic) - 1]) - 1, "already_at_start")
            ELSE ToTopic(th, w, TopicIndex(topic), -1, 0, "already_at_start")

\* the statement that reads session["current_question_index"]:
\* prev_question 530, handle_text 597 (with 599-611) and 622-624
load_index(th, w) ==
    LET idx == Deref(w, th.user, th.session).current_question_index IN
    CASE th.op = "PrevQuestion" ->
            IF idx > 0 THEN Goto(th, w, "update_index") ELSE Finish(th, w, "first_question")
      [] th.op = "Advance" ->
            LET th1 == [th EXCEPT !.question_index = idx] IN
            IF th.topic_key \notin DOMAIN TOPICS THEN Finish(th1, w, "error")
            ELSE IF is_last_question(idx, ContentLen(th.topic_key))
            THEN ToTopic(th1, w, TopicIndex(th.topic_key), 1, 0, "course_complete")
            ELSE Goto(th1, w, "update_index")
      [] th.op = "Retreat" ->
            IF idx > 0 THEN Goto(th, w, "update_index") ELSE Goto(th, w, "load_topic")

\* session["current_question_index"] += 1 / -= 1: the read of the old value
update_index(th, w) ==
    LET idx == Deref(w, th.user, th.session).current_question_index
        delta == IF th.op = "Advance" THEN 1 ELSE -1
    IN [th |-> [th EXCEPT !.pc = "store_index", !.new_index = idx + delta], w |-> w]

\* session["current_topic"] = ...
store_topic(th, w) ==
    Goto(th, StoreField(w, th.user, th.session, "current_topic", th.new_topic), "store_index")

\* session["current_question_index"] = ..., followed by the call of show_question
store_index(th, w) ==
    [th |-> [th EXCEPT !.pc = "get_user_session:18", !.in_show = TRUE],
     w |-> StoreField(w, th.user, th.session, "current_question_index", th.new_index)]

\* show_question, line 308: topic_key = session["current_topic"]
show_question_topic(th, w) ==
    [th |-> [th EXCEPT !.pc = "show_question:309",
                       !.topic_key = Deref(w, th.user, th.session).current_topic],
     w |-> w]

\* show_question, lines 309-312: question_index = session[...]; TOPICS[topic_key]
\* raises KeyError and topic["content"][question_index] IndexError
show_question_index(th, w) ==
    LET idx == Deref(w, th.user, th.session).current_question_index
        th1 == [th EXCEPT !.question_index = idx]
    IN IF th.topic_key \in DOMAIN TOPICS /\ ValidListIndex(idx, ContentLen(th.topic_key))
       THEN Finish(th1, w, "question")
       ELSE Finish(th1, w, "error")

\* one statement of the handler running on thread t
Statement(t, th, w) ==
    CASE th.pc = "get_user_session:18" -> get_user_session_test(th, w)
      [] th.pc = "get_user_session:19" -> get_user_session_create(t, th, w)
      [] th.pc = "get_user_session:24" -> get_user_session_return(th, w)
      [] th.pc = "load_topic"          -> load_topic(th, w)
      [] th.pc = "load_index"          -> load_index(th, w)
      [] th.pc = "update_index"        -> update_index(th, w)
      [] th.pc = "store_topic"         -> store_topic(th, w)
      [] th.pc = "store_index"         -> store_index(th, w)
      [] th.pc = "show_question:308"   -> show_question_topic(th, w)
      [] th.pc = "show_question:309"   -> show_question_index(th, w)
      [] th.pc = "retrieval"           -> Finish(th, w, "answered")

Running == {"get_user_session:18", "get_user_session:19", "get_user_session:24",
            "load_topic", "load_index", "update_index", "store_topic", "store_index",
            "show_question:308", "show_question:309", "retrieval"}

\* the new state, with the objects no thread refers to any more reclaimed
Commit(ths, w) ==
    LET live == {ths[t].session : t \in Threads} IN
    /\ threads' = ths
    /\ user_sessions' = w.sessions
    /\ session_ids' = w.ids
    /\ detached' = [id \in DOMAIN w.detached \cap live |-> w.detached[id]]
    /\ UNCHANGED <<TOPIC_ORDER, TOPICS, SYNONYMS, config, reply, pipe, inbox, call, process>>

\* the messages taken so far
RECURSIVE Delivered(_)
Delivered(ts) ==
    IF ts = {} THEN 0
    ELSE LET t == CHOOSE x \in ts : TRUE IN threads[t].handled + Delivered(ts \ {t})

\* a worker thread takes a message: a navigation handler, or a query
\* (handle_search, or handle_text on its retrieval path)
thread_takes(t, user_id, op) ==
    /\ threads[t].pc = "idle"
    /\ Delivered(Threads) < MaxMessages
    /\ Commit([threads EXCEPT ![t] =
                  [IdleThread EXCEPT !.user = user_id, !.op = op,
                                     !.handled = threads[t].handled + 1,
                                     !.pc = IF op = "Query" THEN "retrieval"
                                            ELSE "get_user_session:18"]],
              World)

thread_runs(t) ==
    /\ threads[t].pc \in Running
    /\ LET r == Statement(t, threads[t], World)
       IN Commit([threads EXCEPT ![t] = r.th], r.w)

Interleave ==
    \E t \in Threads :
        \/ \E user_id \in Users, op \in NavigationOps \cup {"Query"} : thread_takes(t, user_id, op)
        \/ thread_runs(t)

(***************************************************************************)
(* Scoring and search (qa_bot.py).                                         *)
(***************************************************************************)
\* faulty variant: the synonyms are expanded in their turn
RECURSIVE ExpandAll(_)
ExpandAll(expanded) ==
    LET more == expanded \cup UNION { Range(SYNONYMS[w]) : w \in expanded \cap DOMAIN SYNONYMS }
    IN IF more = expanded THEN expanded ELSE ExpandAll(more)

expand_with_synonyms_transitive(words) == ExpandAll(Range(words))

\* expand_with_synonyms: a set of words
expand_with_synonyms(words) ==
    Range(words) \cup UNION { Range(SYNONYMS[w]) : w \in Range(words) \cap DOMAIN SYNONYMS }

\* faulty variant: the phrases are compared with the whole text
PhraseScore_whole_text(query_words, text, full, three, two) ==
    LET query_phrase == Join(query_words)
        query_phrase_2 == IF Len(query_words) >= 2 THEN Join(Prefix(query_words, 2)) ELSE <<>>
        query_phrase_3 == IF Len(query_words) >= 3 THEN Join(Prefix(query_words, 3)) ELSE <<>>
    IN IF query_phrase = text THEN full
       ELSE IF query_phrase_3 # <<>> /\ query_phrase_3 = text THEN three
       ELSE IF query_phrase_2 # <<>> /\ query_phrase_2 = text THEN two
       ELSE 0

\* the question-phrase tier / the answer-phrase tier (if / elif / elif)
PhraseScore(query_words, text, full, three, two) ==
    LET query_phrase == Join(query_words)
        query_phrase_2 == IF Len(query_words) >= 2 THEN Join(Prefix(query_words, 2)) ELSE <<>>
        query_phrase_3 == IF Len(query_words) >= 3 THEN Join(Prefix(query_words, 3)) ELSE <<>>
    IN IF Contains(query_phrase, text) THEN full
       ELSE IF query_phrase_3 # <<>> /\ Contains(query_phrase_3, text) THEN three
       ELSE IF query_phrase_2 # <<>> /\ Contains(query_phrase_2, text) THEN two
       ELSE 0

\* faulty variant: the keyword weight is shared among the entry's keywords
WordScore_shared_keyword_weight(word, question_text, keywords, answer_text, topic_text) ==
      (IF Contains(word, question_text) THEN 5 ELSE 0)
    + (IF InList(word, [i \in 1..Len(keywords) |-> normalize_text(keywords[i])])
       THEN 8 \div Len(keywords) ELSE 0)
    + (IF Contains(word, answer_text) THEN 2 ELSE 0)
    + (IF Contains(word, topic_text) THEN 3 ELSE 0)

\* the body of the loop over expanded_query, for one word
WordScore(word, question_text, keywords, answer_text, topic_text) ==
      (IF Contains(word, question_text) THEN 5 ELSE 0)
    + (IF InList(word, [i \in 1..Len(keywords) |-> normalize_text(keywords[i])]) THEN 8 ELSE 0)
    + (IF Contains(word, answer_text) THEN 2 ELSE 0)
    + (IF Contains(word, topic_text) THEN 3 ELSE 0)

RECURSIVE WordScores(_, _, _, _, _)
WordScores(words, question_text, keywords, answer_text, topic_text) ==
    IF words = {} THEN 0
    ELSE LET w == CHOOSE x \in words : TRUE
         IN WordScore(w, question_text, keywords, answer_text, topic_text)
            + WordScores(words \ {w}, question_text, keywords, answer_text, topic_text)

\* faulty variant: the loop stops at the first word found in the question
RECURSIVE WordScoresIterating_first_hit(_, _, _, _, _)
WordScoresIterating_first_hit(iteration, question_text, keywords, answer_text, topic_text) ==
    IF iteration = <<>> THEN 0
    ELSE WordScore(Head(iteration), question_text, keywords, answer_text, topic_text)
         + (IF Contains(Head(iteration), question_text) THEN 0
            ELSE WordScoresIterating_first_hit(Tail(iteration), question_text, keywords,
                                               answer_text, topic_text))

\* for word in expanded_query: the loop, in the order in which the set
\* expanded_query yields its words (the order depends on the hashes of the
\* strings, which differ from one interpreter process to the next)
RECURSIVE WordScoresIterating(_, _, _, _, _)
WordScoresIterating(iteration, question_text, keywords, answer_text, topic_text) ==
    IF iteration = <<>> THEN 0
    ELSE WordScore(Head(iteration), question_text, keywords, answer_text, topic_text)
         + WordScoresIterating(Tail(iteration), question_text, keywords, answer_text, topic_text)

\* faulty variant: one word of the query found in the question is enough
AllWordsBonus_any_word(query_words, question_text) ==
    IF Len(query_words) > 0
       /\ \E i \in 1..Len(query_words) : Contains(query_words[i], question_text)
    THEN 10 ELSE 0

\* words_in_question == len(query_words) and len(query_words) > 0
AllWordsBonus(query_words, question_text) ==
    IF Len(query_words) > 0
       /\ \A i \in 1..Len(query_words) : Contains(query_words[i], question_text)
    THEN 10 ELSE 0

calculate_relevance_score(query_words, question_data, topic_name) ==
    LET question_text == normalize_text(question_data.question)
        answer_text == normalize_text(question_data.answer)
        topic_text == normalize_text(topic_name)
    IN   PhraseScore(query_words, question_text, 20, 15, 12)
       + PhraseScore(query_words, answer_text, 10, 7, 5)
       + WordScores(expand_with_synonyms(query_words), question_text,
                    question_data.keywords, answer_text, topic_text)
       + AllWordsBonus(query_words, question_text)

\* calculate_relevance_score, with the iteration order of expanded_query
calculate_relevance_score_iterating(query_words, question_data, topic_name, iteration) ==
    LET question_text == normalize_text(question_data.question)
        answer_text == normalize_text(question_data.answer)
        topic_text == normalize_text(topic_name)
    IN   PhraseScore(query_words, question_text, 20, 15, 12)
       + PhraseScore(query_words, answer_text, 10, 7, 5)
       + WordScoresIterating(iteration, question_text, question_data.keywords,
                             answer_text, topic_text)
       + AllWordsBonus(query_words, question_text)

\* the orders in which a set can yield its elements
IterationOrders(S) == { f \in [1..Cardinality(S) -> S] : Range(f) = S }

\* the order in which TOPICS.items() yields the topics
TOPICS_keys == TOPIC_ORDER

\* every (topic, entry) pair in iteration order, with its score
RECURSIVE ScoreAll(_, _, _)
ScoreAll(query_words, ti, ei) ==
    IF ti > Len(TOPICS_keys) THEN <<>>
    ELSE LET topic_key == TOPICS_keys[ti]
             content == TOPICS[topic_key].content
         IN IF ei > Len(content) THEN ScoreAll(query_words, ti + 1, 1)
            ELSE << [score |-> calculate_relevance_score(query_words, content[ei],
                                                         TOPICS[topic_key].name),
                     topic_key |-> topic_key, entry |-> ei - 1] >>
                 \o ScoreAll(query_words, ti, ei + 1)

\* faulty variant: an entry scoring exactly the minimum is dropped
Kept_strict(score, c) == score > c.min_relevance_score

\* if score >= config.SEARCH_CONFIG['min_relevance_score']: results.append(...)
Kept(score, c) == score >= c.min_relevance_score

\* faulty variant: among equal scores the later element comes first
InsertByScore_later_first(sorted, r) ==
    LET k == Cardinality({i \in 1..Len(sorted) : sorted[i].score > r.score})
    IN SubSeq(sorted, 1, k) \o <<r>> \o SubSeq(sorted, k + 1, Len(sorted))

\* list.sort(key=score, reverse=True): stable, descending
InsertByScore(sorted, r) ==
    LET k == Cardinality({i \in 1..Len(sorted) : sorted[i].score >= r.score})
    IN SubSeq(sorted, 1, k) \o <<r>> \o SubSeq(sorted, k + 1, Len(sorted))

RECURSIVE SortByScore(_)
SortByScore(rs) ==
    IF rs = <<>> THEN <<>>
    ELSE InsertByScore(SortByScore(SubSeq(rs, 1, Len(rs) - 1)), rs[Len(rs)])

\* if not query or len(query.strip()) < 2: return []
TooShort(query) == query = <<>> \/ Len(Strip(query)) < 2

\* the loops over TOPICS.items() and content, with the iteration order of expanded_query
RECURSIVE ScoreAllIterating(_, _, _, _)
ScoreAllIterating(query_words, iteration, ti, ei) ==
    IF ti > Len(TOPICS_keys) THEN <<>>
    ELSE LET topic_key == TOPICS_keys[ti]
             content == TOPICS[topic_key].content
         IN IF ei > Len(content) THEN ScoreAllIterating(query_words, iteration, ti + 1, 1)
            ELSE << [score |-> calculate_relevance_score_iterating(
                                   query_words, content[ei], TOPICS[topic_key].name, iteration),
                     topic_key |-> topic_key, entry |-> ei - 1] >>
                 \o ScoreAllIterating(query_words, iteration, ti, ei + 1)

\* search_in_knowledge_base, with the iteration order of expanded_query
search_in_knowledge_base_iterating(query, c, iteration) ==
    IF TooShort(query) THEN <<>>
    ELSE LET query_words == Split(normalize_text(query)) IN
         IF query_words = <<>> THEN <<>>
         ELSE LET all == ScoreAllIterating(query_words, iteration, 1, 1)
                  results == SelectSeq(all, LAMBDA r : Kept(r.score, c))
              IN Prefix(SortByScore(results), c.max_results)

search_in_knowledge_base(query, c) ==
    IF TooShort(query) THEN <<>>
    ELSE LET query_words == Split(normalize_text(query)) IN
         IF query_words = <<>> THEN <<>>
         ELSE LET all == ScoreAll(query_words, 1, 1)
                  results == SelectSeq(all, LAMBDA r : Kept(r.score, c))
              IN Prefix(SortByScore(results), c.max_results)

(***************************************************************************)
(* Input sanitization (security.py).  A pattern of                         *)
(* PROMPT_INJECTION_PATTERNS is written as its alternatives; an            *)
(* alternative is a sequence of literals, each with the separator the      *)
(* regular expression puts before it: none, \s+ ("plus") or \s* ("star").  *)
(***************************************************************************)
PROMPT_INJECTION_PATTERNS ==
    { << [sep |-> "none", lit |-> <<"cy_i", "cy_g", "cy_n", "cy_o", "cy_r", "cy_i", "cy_r", "cy_u">>], [sep |-> "plus", lit |-> <<"cy_p", "cy_r", "cy_e", "cy_d", "cy_y", "cy_d", "cy_u", "cy_sch">>], [sep |-> "plus", lit |-> <<"cy_i", "cy_n", "cy_s", "cy_t", "cy_r", "cy_u", "cy_k", "cy_c">>] >>,
      << [sep |-> "none", lit |-> <<"cy_i", "cy_g", "cy_n", "cy_o", "cy_r", "cy_i", "cy_r", "cy_u">>], [sep |-> "plus", lit |-> <<"cy_v", "cy_s", "cy_e">>], [sep |-> "plus", lit |-> <<"cy_i", "cy_n", "cy_s", "cy_t", "cy_r", "cy_u", "cy_k", "cy_c">>] >>,
      << [sep |-> "none", lit |-> <<"cy_i", "cy_g", "cy_n", "cy_o", "cy_r", "cy_i", "cy_r", "cy_u">>], [sep |-> "plus", lit |-> <<"cy_eh", "cy_t", "cy_i">>], [sep |-> "plus", lit |-> <<"cy_i", "cy_n", "cy_s", "cy_t", "cy_r", "cy_u", "cy_k", "cy_c">>] >>,
      << [sep |-> "none", lit |-> <<"cy_i", "cy_g", "cy_n", "cy_o", "cy_r", "cy_i", "cy_r", "cy_u", "cy_j">>], [sep |-> "plus", lit |-> <<"cy_p", "cy_r", "cy_e", "cy_d", "cy_y", "cy_d", "cy_u", "cy_sch">>], [sep |-> "plus", lit |-> <<"cy_i", "cy_n", "cy_s", "cy_t", "cy_r", "cy_u", "cy_k", "cy_c">>] >>,
      << [sep |-> "none", lit |-> <<"cy_i", "cy_g", "cy_n", "cy_o", "cy_r", "cy_i", "cy_r", "cy_u", "cy_j">>], [sep |-> "plus", lit |-> <<"cy_v", "cy_s", "cy_e">>], [sep |-> "plus", lit |-> <<"cy_i", "cy_n", "cy_s", "cy_t", "cy_r", "cy_u", "cy_k", "cy_c">>] >>,
      << [sep |-> "none", lit |-> <<"cy_i", "cy_g", "cy_n", "cy_o", "cy_r", "cy_i", "cy_r", "cy_u", "cy_j">>], [sep |-> "plus", lit |-> <<"cy_eh", "cy_t", "cy_i">>], [sep |-> "plus", lit |-> <<"cy_i", "cy_n", "cy_s", "cy_t", "cy_r", "cy_u", "cy_k", "cy_c">>] >>,
      << [sep |-> "none", lit |-> <<"cy_i", "cy_g", "cy_n", "cy_o", "cy_r", "cy_i", "cy_r", "cy_j">>], [sep |-> "plus", lit |-> <<"cy_p", "cy_r", "cy_e", "cy_d", "cy_y", "cy_d", "cy_u", "cy_sch">>], [sep |-> "plus", lit |-> <<"cy_i", "cy_n", "cy_s", "cy_t", "cy_r", "cy_u", "cy_k", "cy_c">>] >>,
      << [sep |-> "none", lit |-> <<"cy_i", "cy_g", "cy_n", "cy_o", "cy_r", "cy_i", "cy_r", "cy_j">>], [sep |-> "plus", lit |-> <<"cy_v", "cy_s", "cy_e">>], [sep |-> "plus", lit |-> <<"cy_i", "cy_n", "cy_s", "cy_t", "cy_r", "cy_u", "cy_k", "cy_c">>] >>,
      << [sep |-> "none", lit |-> <<"cy_i", "cy_g", "cy_n", "cy_o", "cy_r", "cy_i", "cy_r", "cy_j">>], [sep |-> "plus", lit |-> <<"cy_eh", "cy_t", "cy_i">>], [sep |-> "plus", lit |-> <<"cy_i", "cy_n", "cy_s", "cy_t", "cy_r", "cy_u", "cy_k", "cy_c">>] >>,
      << [sep |-> "none", lit |-> <<"cy_i", "cy_g", "cy_n", "cy_o", "cy_r", "cy_i", "cy_r", "cy_j", "cy_j">>], [sep |-> "plus", lit |-> <<"cy_p", "cy_r", "cy_e", "cy_d", "cy_y", "cy_d", "cy_u", "cy_sch">>], [sep |-> "plus", lit |-> <<"cy_i", "cy_n", "cy_s", "cy_t", "cy_r", "cy_u", "cy_k", "cy_c">>] >>,
      << [sep |-> "none", lit |-> <<"cy_i", "cy_g", "cy_n", "cy_o", "cy_r", "cy_i", "cy_r", "cy_j", "cy_j">>], [sep |-> "plus", lit |-> <<"cy_v", "cy_s", "cy_e">>], [sep |-> "plus", lit |-> <<"cy_i", "cy_n", "cy_s", "cy_t", "cy_r", "cy_u", "cy_k", "cy_c">>] >>,
      << [sep |-> "none", lit |-> <<"cy_i", "cy_g", "cy_n", "cy_o", "cy_r", "cy_i", "cy_r", "cy_j", "cy_j">>], [sep |-> "plus", lit |-> <<"cy_eh", "cy_t", "cy_i">>], [sep |-> "plus", lit |-> <<"cy_i", "cy_n", "cy_s", "cy_t", "cy_r", "cy_u", "cy_k", "cy_c">>] >>,
      << [sep |-> "none", lit |-> <<"i", "g", "n", "o", "r", "e">>], [sep |-> "plus", lit |-> <<"p", "r", "e", "v", "i", "o", "u", "s">>], [sep |-> "plus", lit |-> <<"i", "n", "s", "t", "r", "u", "c", "t", "i", "o", "n">>] >>,
      << [sep |-> "none", lit |-> <<"i", "g", "n", "o", "r", "e">>], [sep |-> "plus", lit |-> <<"a", "l", "l">>], [sep |-> "plus", lit |-> <<"i", "n", "s", "t", "r", "u", "c", "t", "i", "o", "n">>] >>,
      << [sep |-> "none", lit |-> <<"i", "g", "n", "o", "r", "e">>], [sep |-> "plus", lit |-> <<"t", "h", "e", "s", "e">>], [sep |-> "plus", lit |-> <<"i", "n", "s", "t", "r", "u", "c", "t", "i", "o", "n">>] >>,
      << [sep |-> "none", lit |-> <<"f", "o", "r", "g", "e", "t">>], [sep |-> "plus", lit |-> <<"p", "r", "e", "v", "i", "o", "u", "s">>] >>,
      << [sep |-> "none", lit |-> <<"f", "o", "r", "g", "e", "t">>], [sep |-> "plus", lit |-> <<"a", "l", "l">>] >>,
      << [sep |-> "none", lit |-> <<"f", "o", "r", "g", "e", "t">>], [sep |-> "plus", lit |-> <<"e", "v", "e", "r", "y", "t", "h", "i", "n", "g">>] >>,
      << [sep |-> "none", lit |-> <<"cy_z", "cy_a", "cy_b", "cy_u", "cy_d", "cy_soft">>], [sep |-> "plus", lit |-> <<"cy_p", "cy_r", "cy_e", "cy_d", "cy_y", "cy_d", "cy_u", "cy_sch">>] >>,
      << [sep |-> "none", lit |-> <<"cy_z", "cy_a", "cy_b", "cy_u", "cy_d", "cy_soft">>], [sep |-> "plus", lit |-> <<"cy_v", "cy_s", "cy_e">>] >>,
      << [sep |-> "none", lit |-> <<"cy_z", "cy_a", "cy_b", "cy_u", "cy_d", "cy_soft">>], [sep |-> "plus", lit |-> <<"cy_eh", "cy_t", "cy_o">>] >>,
      << [sep |-> "none", lit |-> <<"cy_s", "cy_i", "cy_s", "cy_t", "cy_e", "cy_m", "cy_n", "cy_y">>], [sep |-> "plus", lit |-> <<"cy_p", "cy_r", "cy_o", "cy_m", "cy_p", "cy_t">>] >>,
      << [sep |-> "none", lit |-> <<"cy_s", "cy_i", "cy_s", "cy_t", "cy_e", "cy_m", "cy_n", "cy_j">>], [sep |-> "plus", lit |-> <<"cy_p", "cy_r", "cy_o", "cy_m", "cy_p", "cy_t">>] >>,
      << [sep |-> "none", lit |-> <<"cy_s", "cy_i", "cy_s", "cy_t", "cy_e", "cy_m", "cy_n", "cy_o">>], [sep |-> "plus", lit |-> <<"cy_p", "cy_r", "cy_o", "cy_m", "cy_p", "cy_t">>] >>,
      << [sep |-> "none", lit |-> <<"cy_s", "cy_i", "cy_s", "cy_t", "cy_e", "cy_m", "cy_n", "cy_a">>], [sep |-> "plus", lit |-> <<"cy_p", "cy_r", "cy_o", "cy_m", "cy_p", "cy_t">>] >>,
      << [sep |-> "none", lit |-> <<"cy_s", "cy_i", "cy_s", "cy_t", "cy_e", "cy_m", "cy_n", "cy_ya">>], [sep |-> "plus", lit |-> <<"cy_p", "cy_r", "cy_o", "cy_m", "cy_p", "cy_t">>] >>,
      << [sep |-> "none", lit |-> <<"s", "y", "s", "t", "e", "m">>], [sep |-> "plus", lit |-> <<"p", "r", "o", "m", "p", "t">>] >>,
      << [sep |-> "none", lit |-> <<"y", "o", "u">>], [sep |-> "plus", lit |-> <<"a", "r", "e">>], [sep |-> "plus", lit |-> <<"n", "o", "w">>] >>,
      << [sep |-> "none", lit |-> <<"y", "o", "u">>], [sep |-> "plus", lit |-> <<"a", "r", "e">>], [sep |-> "plus", lit |-> <<"a">>] >>,
      << [sep |-> "none", lit |-> <<"y", "o", "u">>], [sep |-> "plus", lit |-> <<"a", "r", "e">>], [sep |-> "plus", lit |-> <<"a", "n">>] >>,
      << [sep |-> "none", lit |-> <<"cy_t", "cy_y">>], [sep |-> "plus", lit |-> <<"cy_t", "cy_e", "cy_p", "cy_e", "cy_r", "cy_soft">>], [sep |-> "plus", lit |-> <<"cy_e", "cy_s", "cy_t", "cy_soft">>] >>,
      << [sep |-> "none", lit |-> <<"cy_t", "cy_y">>], [sep |-> "plus", lit |-> <<"cy_t", "cy_e", "cy_p", "cy_e", "cy_r", "cy_soft">>], [sep |-> "plus", lit |-> <<"cy_ya", "cy_v", "cy_l", "cy_ya", "cy_e", "cy_sh", "cy_soft", "cy_s", "cy_ya">>] >>,
      << [sep |-> "none", lit |-> <<"cy_t", "cy_y">>], [sep |-> "plus", lit |-> <<"cy_s", "cy_e", "cy_j", "cy_ch", "cy_a", "cy_s">>], [sep |-> "plus", lit |-> <<"cy_e", "cy_s", "cy_t", "cy_soft">>] >>,
      << [sep |-> "none", lit |-> <<"cy_t", "cy_y">>], [sep |-> "plus", lit |-> <<"cy_s", "cy_e", "cy_j", "cy_ch", "cy_a", "cy_s">>], [sep |-> "plus", lit |-> <<"cy_ya", "cy_v", "cy_l", "cy_ya", "cy_e", "cy_sh", "cy_soft", "cy_s", "cy_ya">>] >>,
      << [sep |-> "none", lit |-> <<"a", "c", "t">>], [sep |-> "plus", lit |-> <<"a", "s">>], [sep |-> "plus", lit |-> <<"y", "o", "u">>], [sep |-> "plus", lit |-> <<"a", "r", "e">>] >>,
      << [sep |-> "none", lit |-> <<"a", "c", "t">>], [sep |-> "plus", lit |-> <<"a", "s">>], [sep |-> "plus", lit |-> <<"i", "f">>], [sep |-> "plus", lit |-> <<"y", "o", "u">>], [sep |-> "plus", lit |-> <<"a", "r", "e">>] >>,
      << [sep |-> "none", lit |-> <<"cy_p", "cy_r", "cy_e", "cy_d", "cy_s", "cy_t", "cy_a", "cy_v", "cy_soft">>], [sep |-> "plus", lit |-> <<"cy_s", "cy_e", "cy_b", "cy_ya">>] >>,
      << [sep |-> "none", lit |-> <<"p", "r", "e", "t", "e", "n", "d">>], [sep |-> "plus", lit |-> <<"t", "o">>], [sep |-> "plus", lit |-> <<"b", "e">>] >>,
      << [sep |-> "none", lit |-> <<"cy_p", "cy_o", "cy_k", "cy_a", "cy_zh", "cy_i">>], [sep |-> "plus", lit |-> <<"cy_s", "cy_i", "cy_s", "cy_t", "cy_e", "cy_m", "cy_n">>] >>,
      << [sep |-> "none", lit |-> <<"cy_p", "cy_o", "cy_k", "cy_a", "cy_zh", "cy_i">>], [sep |-> "plus", lit |-> <<"cy_i", "cy_s", "cy_h", "cy_o", "cy_d", "cy_n">>] >>,
      << [sep |-> "none", lit |-> <<"cy_p", "cy_o", "cy_k", "cy_a", "cy_zh", "cy_i">>], [sep |-> "plus", lit |-> <<"cy_p", "cy_o", "cy_l", "cy_n">>] >>,
      << [sep |-> "none", lit |-> <<"cy_p", "cy_o", "cy_k", "cy_a", "cy_zh", "cy_i">>], [sep |-> "plus", lit |-> <<"cy_m", "cy_n", "cy_e">>], [sep |-> "plus", lit |-> <<"cy_s", "cy_i", "cy_s", "cy_t", "cy_e", "cy_m", "cy_n">>] >>,
      << [sep |-> "none", lit |-> <<"cy_p", "cy_o", "cy_k", "cy_a", "cy_zh", "cy_i">>], [sep |-> "plus", lit |-> <<"cy_m", "cy_n", "cy_e">>], [sep |-> "plus", lit |-> <<"cy_i", "cy_s", "cy_h", "cy_o", "cy_d", "cy_n">>] >>,
      << [sep |-> "none", lit |-> <<"cy_p", "cy_o", "cy_k", "cy_a", "cy_zh", "cy_i">>], [sep |-> "plus", lit |-> <<"cy_m", "cy_n", "cy_e">>], [sep |-> "plus", lit |-> <<"cy_p", "cy_o", "cy_l", "cy_n">>] >>,
      << [sep |-> "none", lit |-> <<"s", "h", "o", "w">>], [sep |-> "plus", lit |-> <<"s", "y", "s", "t", "e", "m">>], [sep |-> "plus", lit |-> <<"p", "r", "o", "m", "p", "t">>] >>,
      << [sep |-> "none", lit |-> <<"s", "h", "o", "w">>], [sep |-> "plus", lit |-> <<"o", "r", "i", "g", "i", "n", "a", "l">>], [sep |-> "plus", lit |-> <<"p", "r", "o", "m", "p", "t">>] >>,
      << [sep |-> "none", lit |-> <<"s", "h", "o", "w">>], [sep |-> "plus", lit |-> <<"f", "u", "l", "l">>], [sep |-> "plus", lit |-> <<"p", "r", "o", "m", "p", "t">>] >>,
      << [sep |-> "none", lit |-> <<"s", "h", "o", "w">>], [sep |-> "plus", lit |-> <<"c", "o", "m", "p", "l", "e", "t", "e">>], [sep |-> "plus", lit |-> <<"p", "r", "o", "m", "p", "t">>] >>,
      << [sep |-> "none", lit |-> <<"s", "h", "o", "w">>], [sep |-> "plus", lit |-> <<"m", "e">>], [sep |-> "plus", lit |-> <<"s", "y", "s", "t", "e", "m">>], [sep |-> "plus", lit |-> <<"p", "r", "o", "m", "p", "t">>] >>,
      << [sep |-> "none", lit |-> <<"s", "h", "o", "w">>], [sep |-> "plus", lit |-> <<"m", "e">>], [sep |-> "plus", lit |-> <<"o", "r", "i", "g", "i", "n", "a", "l">>], [sep |-> "plus", lit |-> <<"p", "r", "o", "m", "p", "t">>] >>,
      << [sep |-> "none", lit |-> <<"s", "h", "o", "w">>], [sep |-> "plus", lit |-> <<"m", "e">>], [sep |-> "plus", lit |-> <<"f", "u", "l", "l">>], [sep |-> "plus", lit |-> <<"p", "r", "o", "m", "p", "t">>] >>,
      << [sep |-> "none", lit |-> <<"s", "h", "o", "w">>], [sep |-> "plus", lit |-> <<"m", "e">>], [sep |-> "plus", lit |-> <<"c", "o", "m", "p", "l", "e", "t", "e">>], [sep |-> "plus", lit |-> <<"p", "r", "o", "m", "p", "t">>] >>,
      << [sep |-> "none", lit |-> <<"w", "h", "a", "t">>], [sep |-> "plus", lit |-> <<"a", "r", "e">>], [sep |-> "plus", lit |-> <<"y", "o", "u", "r">>], [sep |-> "plus", lit |-> <<"i", "n", "s", "t", "r", "u", "c", "t", "i", "o", "n">>] >>,
      << [sep |-> "none", lit |-> <<"w", "h", "a", "t">>], [sep |-> "plus", lit |-> <<"i", "s">>], [sep |-> "plus", lit |-> <<"y", "o", "u", "r">>], [sep |-> "plus", lit |-> <<"i", "n", "s", "t", "r", "u", "c", "t", "i", "o", "n">>] >>,
      << [sep |-> "none", lit |-> <<"cy_k", "cy_a", "cy_k", "cy_i", "cy_e">>], [sep |-> "plus", lit |-> <<"cy_t", "cy_v", "cy_o", "cy_i">>], [sep |-> "plus", lit |-> <<"cy_i", "cy_n", "cy_s", "cy_t", "cy_r", "cy_u", "cy_k", "cy_c", "cy_i", "cy_i">>] >>,
      << [sep |-> "none", lit |-> <<"cy_v", "cy_y", "cy_p", "cy_o", "cy_l", "cy_n", "cy_i">>], [sep |-> "plus", lit |-> <<"cy_k", "cy_o", "cy_m", "cy_a", "cy_n", "cy_d", "cy_u">>] >>,
      << [sep |-> "none", lit |-> <<"e", "x", "e", "c", "u", "t", "e">>], [sep |-> "plus", lit |-> <<"c", "o", "m", "m", "a", "n", "d">>] >>,
      << [sep |-> "none", lit |-> <<"r", "u", "n">>], [sep |-> "plus", lit |-> <<"c", "o", "m", "m", "a", "n", "d">>] >>,
      << [sep |-> "none", lit |-> <<"r", "u", "n">>], [sep |-> "plus", lit |-> <<"c", "o", "d", "e">>] >>,
      << [sep |-> "none", lit |-> <<"r", "u", "n">>], [sep |-> "plus", lit |-> <<"s", "c", "r", "i", "p", "t">>] >>,
      << [sep |-> "none", lit |-> <<";">>], [sep |-> "star", lit |-> <<"d", "r", "o", "p">>] >>,
      << [sep |-> "none", lit |-> <<";">>], [sep |-> "star", lit |-> <<"d", "e", "l", "e", "t", "e">>] >>,
      << [sep |-> "none", lit |-> <<";">>], [sep |-> "star", lit |-> <<"u", "p", "d", "a", "t", "e">>] >>,
      << [sep |-> "none", lit |-> <<";">>], [sep |-> "star", lit |-> <<"i", "n", "s", "e", "r", "t">>] >>,
      << [sep |-> "none", lit |-> <<";">>], [sep |-> "star", lit |-> <<"s", "e", "l", "e", "c", "t">>] >>,
      << [sep |-> "none", lit |-> <<"u", "n", "i", "o", "n">>], [sep |-> "plus", lit |-> <<"s", "e", "l", "e", "c", "t">>] >>,
      << [sep |-> "none", lit |-> <<"<", "s", "c", "r", "i", "p", "t">>] >>,
      << [sep |-> "none", lit |-> <<"j", "a", "v", "a", "s", "c", "r", "i", "p", "t", ":">>] >>,
      << [sep |-> "none", lit |-> <<"[", "s", "y", "s", "t", "e", "m", "]">>] >>,
      << [sep |-> "none", lit |-> <<"[", "i", "n", "s", "t", "r", "u", "c", "t", "i", "o", "n", "]">>] >>,
      << [sep |-> "none", lit |-> <<"[", "p", "r", "o", "m", "p", "t", "]">>] >>,
      << [sep |-> "none", lit |-> <<"#">>], [sep |-> "star", lit |-> <<"s", "y", "s", "t", "e", "m">>] >>,
      << [sep |-> "none", lit |-> <<"#">>], [sep |-> "star", lit |-> <<"i", "n", "s", "t", "r", "u", "c", "t", "i", "o", "n">>] >>,
      << [sep |-> "none", lit |-> <<"#">>], [sep |-> "star", lit |-> <<"p", "r", "o", "m", "p", "t">>] >> }

\* SUSPICIOUS_PATTERNS[0]: the character class of < > { } [ ] \ | and the backtick
SUSPICIOUS_CHARACTERS == {"<", ">", "{", "}", "[", "]", "\\", "|", "backtick"}

\* the pattern from element k on matches text at position pos
RECURSIVE MatchFrom(_, _, _, _)
MatchFrom(pattern, k, text, pos) ==
    IF k > Len(pattern) THEN TRUE
    ELSE LET e == pattern[k]
             least == IF e.sep = "plus" THEN 1 ELSE 0
             most == IF e.sep = "none" THEN 0 ELSE Len(text) - pos + 1
         IN \E n \in least..most :
               /\ \A i \in pos..(pos + n - 1) : IsSpace(text[i])
               /\ pos + n + Len(e.lit) - 1 <= Len(text)
               /\ SubSeq(text, pos + n, pos + n + Len(e.lit) - 1) = e.lit
               /\ MatchFrom(pattern, k + 1, text, pos + n + Len(e.lit))

\* re.search(pattern, text)
Search(pattern, text) == \E pos \in 1..Len(text) : MatchFrom(pattern, 1, text, pos)

\* SUSPICIOUS_PATTERNS[1], (.)\1{10,}: one character eleven times in a row
RepeatedCharacter(text) ==
    \E i \in 1..(Len(text) - 10) : \A j \in i..(i + 10) : text[j] = text[i]

\* the loop over SUSPICIOUS_PATTERNS
SuspiciousCharacters(text) ==
    \/ \E i \in 1..Len(text) : text[i] \in SUSPICIOUS_CHARACTERS
    \/ RepeatedCharacter(text)
    \/ \E i \in 1..Len(text) : text[i] = "NUL"

detect_prompt_injection(text) ==
    /\ text # <<>>
    /\ \/ \E pattern \in PROMPT_INJECTION_PATTERNS : Search(pattern, LowerText(text))
       \/ SuspiciousCharacters(text)

validate_query_length(text, max_length) == text # <<>> /\ Len(text) <= max_length

\* str.replace(old, ''): every occurrence of old, left to right, is removed
RECURSIVE RemoveAll(_, _)
RemoveAll(old, text) ==
    IF text = <<>> THEN <<>>
    ELSE IF Len(old) <= Len(text) /\ SubSeq(text, 1, Len(old)) = old
    THEN RemoveAll(old, SubSeq(text, Len(old) + 1, Len(text)))
    ELSE <<Head(text)>> \o RemoveAll(old, Tail(text))

\* sanitize_input: (sanitized_text, is_valid)
sanitize_input(text, max_length, check_injection) ==
    IF text = <<>> THEN [text |-> <<>>, valid |-> FALSE]
    ELSE LET stripped == Strip(text) IN
         IF ~validate_query_length(stripped, max_length)
         THEN [text |-> Prefix(stripped, max_length), valid |-> FALSE]
         ELSE IF check_injection /\ detect_prompt_injection(stripped)
         THEN [text |-> stripped, valid |-> FALSE]
         ELSE [text |-> CollapseSpaces(RemoveAll(<<"NUL">>, stripped)), valid |-> TRUE]

\* Python's None where a text is expected
None == <<"None">>

\* faulty variant: the input is checked, and handed on as it came
validate_and_sanitize_input_raw(raw_input, is_search, c) ==
    LET max_length == IF is_search THEN c.max_search_length ELSE c.max_query_length IN
    IF c.enable_input_sanitization
    THEN LET r == sanitize_input(raw_input, max_length, c.enable_prompt_injection_detection) IN
         IF ~r.valid THEN [text |-> None, valid |-> FALSE, verdict |-> "rejected"]
         ELSE [text |-> raw_input, valid |-> TRUE, verdict |-> "accepted"]
    ELSE [text |-> raw_input, valid |-> TRUE, verdict |-> "off"]

\* validate_and_sanitize_input: (text, is_valid), and which way it returned
validate_and_sanitize_input(raw_input, is_search, c) ==
    LET max_length == IF is_search THEN c.max_search_length ELSE c.max_query_length IN
    IF c.enable_input_sanitization
    THEN LET r == sanitize_input(raw_input, max_length, c.enable_prompt_injection_detection) IN
         IF ~r.valid THEN [text |-> None, valid |-> FALSE, verdict |-> "rejected"]
         ELSE [text |-> r.text, valid |-> TRUE, verdict |-> "accepted"]
    ELSE [text |-> raw_input, valid |-> TRUE, verdict |-> "off"]

(***************************************************************************)
(* process_search_results (qa_bot.py) with check_relevance and ask_ai      *)
(* (ai_helper.py).  pipe is the running invocation:                        *)
(*   pc          where it is; "check_relevance" and "ask_ai": blocked in   *)
(*               that function's request to the Oracle                     *)
(*   branch      the branch of process_search_results taken                *)
(*   is_relevant what check_relevance returned ("unset" before)            *)
(*   ai_response what ask_ai returned; "unset": send_ai_response was not   *)
(*               called; "off": it returned at its guard, without ask_ai   *)
(*   calls       the requests sent to the Oracle, in order                 *)
(*   responses   the Oracle's responses, in order                          *)
(*   sent        the messages sent to the chat, in order                   *)
(*   raised      whether an exception left process_search_results          *)
(*   hung        whether the request in flight is one that never returns   *)
(*   sanitizer   how validate_and_sanitize_input returned to the handler   *)
(*               ("unset": the handler has not called it)                  *)
(***************************************************************************)
IdlePipe ==
    [pc |-> "idle", query |-> <<>>, is_search |-> FALSE, results |-> <<>>,
     branch |-> "none", is_relevant |-> "unset", ai_response |-> "unset",
     calls |-> <<>>, responses |-> <<>>, sent |-> <<>>,
     raised |-> FALSE, hung |-> FALSE, sanitizer |-> "unset"]

Waiting == {"check_relevance", "ask_ai"}

\* bot.send_message(...) and return
SendAndReturn(p, message) == [p EXCEPT !.pc = "done", !.sent = Append(@, message)]

\* an exception leaves process_search_results
Raise(p) == [p EXCEPT !.pc = "done", !.raised = TRUE]

\* client.chat.completions.create(...): the request is sent, the caller blocks
Request(p, function) == [p EXCEPT !.pc = function, !.calls = Append(@, function)]

\* faulty variant: the medium branch does not degrade to the curated answer
after_send_ai_response_false_not_found(p) == SendAndReturn(p, "not_found")

\* process_search_results after send_ai_response has returned False:
\* the curated answer on the medium branch, the not-found message on the others
after_send_ai_response_false(p) ==
    IF p.branch = "medium" THEN SendAndReturn(p, "curated")
    ELSE SendAndReturn(p, "not_found")

\* send_ai_response after ask_ai has returned: if ai_response: send it, return True
after_ask_ai(p, ai_response) ==
    LET p1 == [p EXCEPT !.ai_response = ai_response] IN
    IF ai_response = "answer" THEN SendAndReturn(p1, "ai_answer")
    ELSE after_send_ai_response_false(p1)

\* ask_ai up to its request: if not enabled or not client: return None
ask_ai(p, c) ==
    IF ~c.ai_enabled \/ ~c.client THEN after_ask_ai(p, "None")
    ELSE Request(p, "ask_ai")

\* send_ai_response: if not enabled or not use_fallback: return False
send_ai_response(p, c) ==
    IF ~c.ai_enabled \/ ~c.use_fallback
    THEN after_send_ai_response_false([p EXCEPT !.ai_response = "off"])
    ELSE ask_ai(p, c)

\* faulty variant: ask_ai without its try / except
ask_ai_result_uncaught(response) ==
    CASE response = "text"  -> "answer"
      [] response = "empty" -> "empty"
      [] response = "error" -> "raise"

\* ask_ai after the request: the answer text, stripped; None on APIError / Exception
ask_ai_result(response) ==
    CASE response = "text"  -> "answer"
      [] response = "empty" -> "empty"
      [] response = "error" -> "None"

\* faulty variant: a confirmed candidate goes to the generative fallback all the same
after_check_relevance_always_fallback(p, c, is_relevant) ==
    send_ai_response([p EXCEPT !.is_relevant = is_relevant], c)

\* faulty variant: a failed verification is requested again
after_check_relevance_retry(p, c, is_relevant) ==
    LET p1 == [p EXCEPT !.is_relevant = is_relevant] IN
    IF is_relevant = "None" THEN Request(p1, "check_relevance")
    ELSE IF is_relevant # "True" THEN send_ai_response(p1, c)
    ELSE SendAndReturn(p1, "curated")

\* process_search_results after check_relevance has returned:
\* if is_relevant is None or not is_relevant: fallback, else the curated answer
after_check_relevance(p, c, is_relevant) ==
    LET p1 == [p EXCEPT !.is_relevant = is_relevant] IN
    IF is_relevant = "None" \/ is_relevant # "True"
    THEN send_ai_response(p1, c)
    ELSE SendAndReturn(p1, "curated")

\* faulty variant: use_ai_relevance_check is not consulted
check_relevance_ignores_flag(p, c) ==
    IF ~c.ai_enabled \/ ~c.client THEN after_check_relevance(p, c, "None")
    ELSE Request(p, "check_relevance")

\* check_relevance up to its request
check_relevance(p, c) ==
    IF ~c.ai_enabled \/ ~c.client THEN after_check_relevance(p, c, "None")
    ELSE IF ~c.use_ai_relevance_check THEN after_check_relevance(p, c, "True")
    ELSE Request(p, "check_relevance")

\* check_relevance after the request: "ДА" / "YES" / "TRUE" in the answer; None on Exception
check_relevance_result(response) ==
    CASE response = "yes"   -> "True"
      [] response = "no"    -> "False"
      [] response = "error" -> "None"

\* faulty variant: a score equal to the high threshold is not high
IsHigh_strict(score, c) == score > c.high_relevance_score

\* if score >= config.SEARCH_CONFIG['high_relevance_score']
IsHigh(score, c) == score >= c.high_relevance_score

\* faulty variant: a score equal to the minimum is not medium
IsMedium_strict(score, c) == score > c.min_relevance_score

\* if score >= config.SEARCH_CONFIG['min_relevance_score']
IsMedium(score, c) == score >= c.min_relevance_score

process_search_results(p, c) ==
    IF p.results = <<>>
    THEN send_ai_response([p EXCEPT !.branch = "empty"], c)
    ELSE LET score == p.results[1].score IN
         IF IsHigh(score, c)
         THEN SendAndReturn([p EXCEPT !.branch = "high"], "curated")
         ELSE IF IsMedium(score, c)
         THEN check_relevance([p EXCEPT !.branch = "medium"], c)
         ELSE send_ai_response([p EXCEPT !.branch = "low"], c)

(***************************************************************************)
(* The Oracle: what a request's response can be.                           *)
(***************************************************************************)
RelevanceResponses == {"yes", "no", "error"}

AnswerResponses == {"text", "empty", "error"}

\* a request in flight either gets a response or never returns
Blocks(p, hangs) == IF p.pc \in Waiting THEN [p EXCEPT !.hung = hangs] ELSE p

QueryAlphabet == {"a", "b", " ", "?"}

Queries == UNION { [1..n -> QueryAlphabet] : n \in 0..MaxQueryLen }

\* faulty variant: the pipeline moves the user's cursor to the entry it found
PipeStep_moves_cursor(p) ==
    /\ \E hangs \in BOOLEAN : pipe' = Blocks(p, hangs)
    /\ user_sessions' =
          IF p.results # <<>> /\ inbox.user \in DOMAIN user_sessions
          THEN SetPosition(user_sessions, inbox.user, p.results[1].topic_key, p.results[1].entry)
          ELSE user_sessions
    /\ UNCHANGED <<TOPIC_ORDER, TOPICS, SYNONYMS, config, reply>>
    /\ UNCHANGED <<session_ids, detached, threads, inbox, call, process>>

\* a step of a handler on its retrieval path: nothing but pipe changes
PipeStep(p) ==
    /\ \E hangs \in BOOLEAN : pipe' = Blocks(p, hangs)
    /\ UNCHANGED <<TOPIC_ORDER, TOPICS, SYNONYMS, config, user_sessions, reply>>
    /\ UNCHANGED <<session_ids, detached, threads, inbox, call, process>>

\* results = search_in_knowledge_base(query); process_search_results(chat_id, query, results, is_search)
retrieve(query, is_search) ==
    /\ Idle
    /\ LET p == [IdlePipe EXCEPT !.query = query, !.is_search = is_search,
                                 !.results = search_in_knowledge_base(query, config)]
       IN PipeStep(process_search_results(p, config))

\* check_relevance's request returns
check_relevance_returns ==
    /\ pipe.pc = "check_relevance"
    /\ ~pipe.hung
    /\ \E response \in RelevanceResponses :
          LET r == check_relevance_result(response)
              p == [pipe EXCEPT !.responses = Append(@, response)]
          IN IF r = "raise" THEN PipeStep(Raise(p))
             ELSE PipeStep(after_check_relevance(p, config, r))

\* ask_ai's request returns
ask_ai_returns ==
    /\ pipe.pc = "ask_ai"
    /\ ~pipe.hung
    /\ \E response \in AnswerResponses :
          LET r == ask_ai_result(response)
              p == [pipe EXCEPT !.responses = Append(@, response)]
          IN IF r = "raise" THEN PipeStep(Raise(p))
             ELSE PipeStep(after_ask_ai(p, r))

\* process_search_results and the handler that called it return
handler_returns ==
    /\ pipe.pc = "done"
    /\ pipe' = IdlePipe
    /\ UNCHANGED <<TOPIC_ORDER, TOPICS, SYNONYMS, config, user_sessions, reply>>
    /\ UNCHANGED <<session_ids, detached, threads, inbox, call, process>>

Retrieve ==
    \E query \in Queries, is_search \in BOOLEAN : retrieve(query, is_search)

(***************************************************************************)
(* handle_search and handle_text (qa_bot.py): a text message, from the     *)
(* message to the reply or to the first request to the Oracle.  inbox is   *)
(* the message being delivered; the user may send it again.                *)
(***************************************************************************)
button_texts ==
    << <<"CY_s", "cy_t", "cy_a", "cy_r", "cy_t", " ", "emoji_rocket">>,
       <<"CY_n", "cy_a", " ", "cy_g", "cy_l", "cy_a", "cy_v", "cy_n", "cy_u", "cy_yu", " ", "emoji_house">>,
       <<"CY_n", "cy_a", "cy_z", "cy_a", "cy_d", " ", "emoji_left", "emoji_vs16">>,
       <<"CY_p", "cy_r", "cy_e", "cy_d", "cy_y", "cy_d", "cy_u", "cy_sch", "cy_i", "cy_j", " ", "cy_v", "cy_o", "cy_p", "cy_r", "cy_o", "cy_s", " ", "emoji_return", "emoji_vs16">>,
       <<"CY_s", "cy_l", "cy_e", "cy_d", "cy_u", "cy_yu", "cy_sch", "cy_a", "cy_ya", " ", "cy_t", "cy_e", "cy_m", "cy_a", " ", "emoji_right", "emoji_vs16">>,
       <<"CY_z", "cy_a", "cy_d", "cy_a", "cy_t", "cy_soft", " ", "cy_v", "cy_o", "cy_p", "cy_r", "cy_o", "cy_s", " ", "emoji_question">>,
       <<"emoji_clipboard", " ", "CY_k", "cy_o", "cy_m", "cy_a", "cy_n", "cy_d", "cy_y">>,
       <<"emoji_book", " ", "CY_s", "cy_p", "cy_i", "cy_s", "cy_o", "cy_k", " ", "cy_t", "cy_e", "cy_m">> >>

continue_words ==
    << <<"cy_p", "cy_r", "cy_o", "cy_d", "cy_o", "cy_l", "cy_zh", "cy_a", "cy_j">>,
       <<"cy_d", "cy_a", "cy_l", "cy_soft", "cy_sh", "cy_e">>,
       <<"n", "e", "x", "t">>,
       <<"cy_o", "cy_k">>,
       <<"cy_o", "cy_k", "cy_e", "cy_j">>,
       <<"o", "k">>,
       <<"cy_p", "cy_r", "cy_o", "cy_d", "cy_o", "cy_l", "cy_zh", "cy_i", "cy_t", "cy_soft">>,
       <<"cy_v", "cy_p", "cy_e", "cy_r", "cy_e", "cy_d">>,
       <<"cy_d", "cy_a", "cy_l", "cy_e", "cy_e">>,
       <<"cy_s", "cy_l", "cy_e", "cy_d", "cy_u", "cy_yu", "cy_sch", "cy_i", "cy_j">>,
       <<"cy_p", "cy_r", "cy_o", "cy_d", "cy_o", "cy_l", "cy_zh", "cy_i">> >>

back_words ==
    << <<"cy_n", "cy_a", "cy_z", "cy_a", "cy_d">>,
       <<"cy_p", "cy_r", "cy_e", "cy_d", "cy_y", "cy_d", "cy_u", "cy_sch", "cy_a", "cy_ya">>,
       <<"p", "r", "e", "v", "i", "o", "u", "s">>,
       <<"b", "a", "c", "k">>,
       <<"cy_v", "cy_e", "cy_r", "cy_n", "cy_u", "cy_t", "cy_soft", "cy_s", "cy_ya">> >>

greeting_words ==
    << <<"cy_p", "cy_r", "cy_i", "cy_v", "cy_e", "cy_t">>,
       <<"cy_z", "cy_d", "cy_r", "cy_a", "cy_v", "cy_s", "cy_t", "cy_v">>,
       <<"h", "e", "l", "l", "o">>,
       <<"h", "i">> >>

thanks_words ==
    << <<"cy_s", "cy_p", "cy_a", "cy_s", "cy_i", "cy_b", "cy_o">>,
       <<"cy_b", "cy_l", "cy_a", "cy_g", "cy_o", "cy_d", "cy_a", "cy_r">> >>

\* any(word in text for word in words)
AnyWordIn(words, text) == \E i \in 1..Len(words) : Contains(words[i], text)

COMMAND_SEARCH == <<"/", "s", "e", "a", "r", "c", "h">>

\* results = search_in_knowledge_base(query);
\* process_search_results(chat_id, query, results, is_search), in a handler
\* that validate_and_sanitize_input has returned to
search_and_process(query, is_search, verdict) ==
    LET p == [IdlePipe EXCEPT !.query = query, !.is_search = is_search,
                              !.sanitizer = verdict,
                              !.results = search_in_knowledge_base(query, config)]
    IN PipeStep(process_search_results(p, config))

\* the handler sends one message and returns
Answer(verdict, message) ==
    PipeStep(SendAndReturn([IdlePipe EXCEPT !.sanitizer = verdict], message))

\* message.text.replace('/search', '').strip()
raw_query_of(text) == Strip(RemoveAll(COMMAND_SEARCH, text))

handle_search ==
    /\ Idle
    /\ inbox.handler = "handle_search"
    /\ LET raw_query == raw_query_of(inbox.text) IN
       IF raw_query = <<>> THEN Answer("unset", "usage")
       ELSE LET v == validate_and_sanitize_input(raw_query, TRUE, config) IN
            IF ~v.valid THEN Answer(v.verdict, "invalid")
            ELSE search_and_process(v.text, TRUE, v.verdict)

\* faulty variant: the back words are tried before the continue words
handle_text_back_words_first ==
    /\ Idle
    /\ inbox.handler = "handle_text"
    /\ LET user_input == LowerText(inbox.text) IN
       IF InList(inbox.text, button_texts)
       THEN PipeStep([IdlePipe EXCEPT !.pc = "done"])
       ELSE IF AnyWordIn(back_words, user_input) THEN handle_text_back(inbox.user)
       ELSE IF AnyWordIn(continue_words, user_input) THEN handle_text_continue(inbox.user)
       ELSE LET v == validate_and_sanitize_input(inbox.text, FALSE, config) IN
            IF ~v.valid THEN Answer(v.verdict, "invalid")
            ELSE IF AnyWordIn(greeting_words, user_input) THEN Answer(v.verdict, "greeting")
            ELSE IF AnyWordIn(thanks_words, user_input) THEN Answer(v.verdict, "thanks")
            ELSE search_and_process(v.text, FALSE, v.verdict)

handle_text ==
    /\ Idle
    /\ inbox.handler = "handle_text"
    /\ LET user_input == LowerText(inbox.text) IN
       IF InList(inbox.text, button_texts)
       THEN PipeStep([IdlePipe EXCEPT !.pc = "done"])
       ELSE IF AnyWordIn(continue_words, user_input) THEN handle_text_continue(inbox.user)
       ELSE IF AnyWordIn(back_words, user_input) THEN handle_text_back(inbox.user)
       ELSE LET v == validate_and_sanitize_input(inbox.text, FALSE, config) IN
            IF ~v.valid THEN Answer(v.verdict, "invalid")
            ELSE IF AnyWordIn(greeting_words, user_input) THEN Answer(v.verdict, "greeting")
            ELSE IF AnyWordIn(thanks_words, user_input) THEN Answer(v.verdict, "thanks")
            ELSE search_and_process(v.text, FALSE, v.verdict)

\* the pieces the texts of the messages are made of
Pieces ==
    << <<"b">>, <<"?">>, <<" ">>, <<"b", " ", " ">>, <<"<">>, <<"NUL">>,
       <<"o", "k">>, <<"b", "a", "c", "k">>, <<"h", "i">>,
       <<"cy_s", "cy_p", "cy_a", "cy_s", "cy_i", "cy_b", "cy_o">>,
       <<"s", "y", "s", "t", "e", "m", " ", " ", "p", "r", "o", "m", "p", "t">> >>

RECURSIVE Concat(_)
Concat(pieces) == IF pieces = <<>> THEN <<>> ELSE Head(pieces) \o Concat(Tail(pieces))

Texts ==
    UNION { { Concat([i \in 1..n |-> Pieces[f[i]]]) : f \in [1..n -> 1..Len(Pieces)] } :
            n \in 0..MaxPieces }

\* the messages telebot hands to the two handlers: /search and its argument
\* to handle_search; to handle_text a text that is not a command
Messages ==
    { [handler |-> "handle_search", user |-> "u1", text |-> COMMAND_SEARCH \o argument] :
        argument \in {<<>>} \cup { <<" ">> \o t : t \in Texts } }
    \cup { [handler |-> "handle_text", user |-> "u1", text |-> t] :
             t \in { x \in Texts : x # <<>> /\ x[1] # "/" } }

HandleMessage ==
    \/ handle_search
    \/ handle_text
    \/ check_relevance_returns
    \/ ask_ai_returns
    \/ handler_returns

(***************************************************************************)
(* The functions of the pipeline called on their own (as test_logic.py     *)
(* calls them).  call holds the function, its arguments, and what it has   *)
(* returned, one element for every time it was called.                     *)
(***************************************************************************)
\* everything but call
called_with == <<TOPIC_ORDER, TOPICS, SYNONYMS, config, user_sessions, reply, pipe,
                 session_ids, detached, threads, inbox, process>>

\* the characters of the texts given to normalize_text
TextAlphabet == {"a", "B", "7", "_", "?", " ", "CY_s"}

NormalizeCalls ==
    { [function |-> "normalize_text", text |-> text, returned |-> <<>>] :
        text \in UNION { [1..n -> TextAlphabet] : n \in 0..MaxQueryLen } }

\* normalize_text(text), and then normalize_text of what it returned
normalize_text_call ==
    /\ call.function = "normalize_text"
    /\ Len(call.returned) < 2
    /\ call' = [call EXCEPT !.returned =
                    Append(@, normalize_text(IF @ = <<>> THEN call.text ELSE @[Len(@)]))]
    /\ UNCHANGED called_with

\* the words of the lists given to expand_with_synonyms
ExpandWords == { <<"a">>, <<"b">>, <<"c">> }

\* word lists of up to n words
WordLists(words, n) == UNION { [1..k -> words] : k \in 0..n }

\* the synonym tables: some words, each with a list of one or two words
SynonymTables ==
    UNION { [keys -> { << <<"a">> >>, << <<"c">> >>, << <<"c">>, <<"b">> >> }] :
            keys \in SUBSET ExpandWords }

ExpandCalls ==
    { [function |-> "expand_with_synonyms", words |-> words, returned |-> <<>>] :
        words \in WordLists(ExpandWords, MaxWords) }

expand_with_synonyms_call ==
    /\ call.function = "expand_with_synonyms"
    /\ call.returned = <<>>
    /\ call' = [call EXCEPT !.returned = <<expand_with_synonyms(call.words)>>]
    /\ UNCHANGED called_with

\* the words of the queries and texts given to calculate_relevance_score
ScoreWords == { <<"a">>, <<"b">> }

ScoreTexts == { Join(words) : words \in WordLists(ScoreWords, MaxWords) }

\* calculate_relevance_score(query_words, question_data, topic_name), with a
\* token to append to query_words or to add to the keywords of question_data
ScoreCalls ==
    { [function |-> "calculate_relevance_score", query_words |-> query_words,
       question_data |-> Entry(question, answer, keywords), topic_name |-> topic_name,
       token |-> token, returned |-> <<>>] :
        query_words \in WordLists(ScoreWords, MaxWords),
        question \in ScoreTexts,
        answer \in { <<>>, <<"b", " ", "a", " ", "b">> },
        keywords \in { <<>>, << <<"B">> >> },
        topic_name \in { <<"T">>, <<"a">> },
        token \in ScoreWords }

\* the score of the entry; of the entry for the query with the token
\* appended; of the entry with the token among its keywords, for the query
calculate_relevance_score_call ==
    /\ call.function = "calculate_relevance_score"
    /\ call.returned = <<>>
    /\ LET e == call.question_data
           with_keyword == [e EXCEPT !.keywords = Append(@, call.token)]
       IN call' = [call EXCEPT !.returned =
             << [score |-> calculate_relevance_score(call.query_words, e, call.topic_name),
                 with_token |-> calculate_relevance_score(
                                    Append(call.query_words, call.token), e, call.topic_name),
                 with_keyword |-> calculate_relevance_score(
                                      call.query_words, with_keyword, call.topic_name)] >>]
    /\ UNCHANGED called_with

\* the characters of the queries given to search_in_knowledge_base
SearchAlphabet == QueryAlphabet \cup {"c"}

SearchCalls ==
    { [function |-> "search_in_knowledge_base", query |-> query, returned |-> <<>>] :
        query \in UNION { [1..n -> SearchAlphabet] : n \in 0..MaxQueryLen } }

\* search_in_knowledge_base(query), twice; each time the set expanded_query
\* yields its words in some order
search_in_knowledge_base_call ==
    /\ call.function = "search_in_knowledge_base"
    /\ Len(call.returned) < 2
    /\ \E iteration \in IterationOrders(expand_with_synonyms(Split(normalize_text(call.query)))) :
          call' = [call EXCEPT !.returned =
                      Append(@, search_in_knowledge_base_iterating(call.query, config, iteration))]
    /\ UNCHANGED called_with

\* the message-size limit of format_response_from_db
RESPONSE_LIMIT == 4000

\* "\n\n... (сообщение обрезано)"
TRUNCATION_MARKER ==
    << "\n", "\n", ".", ".", ".", " ", "(",
       "cy_s", "cy_o", "cy_o", "cy_b", "cy_sch", "cy_e", "cy_n", "cy_i", "cy_e", " ",
       "cy_o", "cy_b", "cy_r", "cy_e", "cy_z", "cy_a", "cy_n", "cy_o", ")" >>

\* the response before the length test: the topic name and the question, each
\* between asterisks and followed by an empty line, and the answer
Untruncated(result) ==
    <<"*">> \o result.topic_name \o <<"*", "\n", "\n">>
        \o <<"*">> \o result.question \o <<"*", "\n", "\n">>
        \o result.answer

\* response[:4000]
format_response_from_db(result) ==
    LET response == Untruncated(result) IN
    IF Len(response) > RESPONSE_LIMIT
    THEN SubSeq(response, 1, RESPONSE_LIMIT) \o TRUNCATION_MARKER
    ELSE response

\* a text of n characters
Filler(n) == [i \in 1..n |-> "x"]

\* the results given to format_response_from_db: short answers, and answers
\* that make the response up to MaxExcess characters shorter or longer than
\* the limit
FormatCalls ==
    { [function |-> "format_response_from_db",
       result |-> [topic_name |-> topic_name, question |-> question, answer |-> Filler(n)],
       returned |-> <<>>] :
        topic_name \in { <<"T">> },
        question \in { <<"q", "?">> },
        n \in LET header == Len(Untruncated([topic_name |-> <<"T">>, question |-> <<"q", "?">>,
                                              answer |-> <<>>]))
              IN 0..MaxExcess \cup
                 (RESPONSE_LIMIT - header - MaxExcess)..(RESPONSE_LIMIT - header + MaxExcess) }

format_response_from_db_call ==
    /\ call.function = "format_response_from_db"
    /\ call.returned = <<>>
    /\ call' = [call EXCEPT !.returned = <<format_response_from_db(call.result)>>]
    /\ UNCHANGED called_with

CallFunction ==
    \/ normalize_text_call
    \/ expand_with_synonyms_call
    \/ calculate_relevance_score_call
    \/ search_in_knowledge_base_call
    \/ format_response_from_db_call

(***************************************************************************)
(* Startup.  qa_bot.py imports TOPICS and TOPIC_ORDER from knowledge_base  *)
(* (line 5) and serves messages from infinity_polling.  process is         *)
(* "importing" while the module is loaded, "polling" while messages are    *)
(* served and "exited" when the import has failed.                         *)
(***************************************************************************)
\* every identifier of TOPIC_ORDER is a topic and every topic is in
\* TOPIC_ORDER; each topic has at least one entry
Consistent(order, topics) ==
    /\ Range(order) = DOMAIN topics
    /\ \A t \in DOMAIN topics : Len(topics[t].content) >= 1

\* TOPIC_ORDER and TOPICS as they may be written: any topics of the pool in
\* the order of the pool, and any of them as keys, with any number of entries
KnowledgeBaseData ==
    LET pool == SubSeq(TopicPool, 1, NumTopics)
        Picked(keys) == { i \in 1..Len(pool) : pool[i] \in keys }
        \* the topics of keys in the order of the pool
        Order(keys) ==
            [k \in 1..Cardinality(keys) |->
                pool[CHOOSE i \in Picked(keys) :
                        Cardinality({ j \in Picked(keys) : j < i }) = k - 1]]
        Lengths(keys) ==
            { l \in [keys -> 0..MaxEntries] : \A t \in keys : l[t] <= NumEntries(t) }
    IN UNION { { << Order(listed),
                    [t \in keys |-> [name |-> TopicName(t),
                                     content |-> SubSeq(EntryPool(t), 1, lens[t])]] >> :
                  listed \in SUBSET Range(pool) \ {{}}, lens \in Lengths(keys) } :
               keys \in SUBSET Range(pool) \ {{}} }

\* the import of knowledge_base: the process goes on to serve messages, or
\* exits when the knowledge base is not consistent
import_knowledge_base ==
    /\ process = "importing"
    /\ process' = IF Consistent(TOPIC_ORDER, TOPICS) THEN "polling" ELSE "exited"
    /\ UNCHANGED <<TOPIC_ORDER, TOPICS, SYNONYMS, config, user_sessions, reply, pipe>>
    /\ UNCHANGED <<session_ids, detached, threads, inbox, call>>

(***************************************************************************)
(* Specifications.                                                         *)
(***************************************************************************)
NoReply == [user |-> "none", op |-> "none", signal |-> "none"]

\* no message is being delivered to handle_search or handle_text
NoMessage == [handler |-> "none", user |-> "none", text |-> <<>>]

\* no function is being called on its own
NoCall == [function |-> "none"]

Init ==
    /\ \E kb \in KnowledgeBases :
          /\ TOPIC_ORDER = kb[1]
          /\ TOPICS = MakeTopics(kb[1], kb[2])
    /\ config \in Configs
    /\ user_sessions = <<>>
    /\ reply = NoReply
    /\ pipe = IdlePipe
    /\ session_ids = <<>>
    /\ detached = <<>>
    /\ threads = [t \in Threads |-> IdleThread]
    /\ process = "polling"
    /\ inbox = NoMessage
    /\ call = NoCall
    /\ SYNONYMS = SynonymTable

Next ==
    \/ Navigate
    \/ Retrieve
    \/ check_relevance_returns
    \/ ask_ai_returns
    \/ handler_returns

Spec == Init /\ [][Next]_vars

\* the navigation state machine alone, over every knowledge base
InitNav == Init /\ config = DefaultConfig

SpecNav == InitNav /\ [][Navigate]_vars

\* the retrieval pipeline alone, over every configuration
InitPipe ==
    /\ TOPIC_ORDER = FullKnowledgeBase[1]
    /\ TOPICS = MakeTopics(FullKnowledgeBase[1], FullKnowledgeBase[2])
    /\ config \in Configs
    /\ user_sessions = <<>>
    /\ reply = NoReply
    /\ pipe = IdlePipe
    /\ session_ids = <<>>
    /\ detached = <<>>
    /\ threads = [t \in Threads |-> IdleThread]
    /\ process = "polling"
    /\ inbox = NoMessage
    /\ call = NoCall
    /\ SYNONYMS = SynonymTable

NextPipe ==
    \/ Retrieve
    \/ check_relevance_returns
    \/ ask_ai_returns
    \/ handler_returns

SpecPipe == InitPipe /\ [][NextPipe]_vars

\* the navigation handlers of two worker threads, statement by statement
\* a session as the handlers above leave it (C1), created before the threads start
Sessions(order, topics) ==
    { [current_topic |-> topic, current_question_index |-> i, previous_state |-> "None"] :
        topic \in Range(order), i \in 0..(MaxEntries - 1) } \cap
    { s \in [current_topic : Range(order), current_question_index : 0..(MaxEntries - 1),
              previous_state : {"None"}] :
        s.current_question_index < Len(topics[s.current_topic].content) }

InitThreads ==
    /\ TOPIC_ORDER = SubSeq(TopicPool, 1, 2)
    /\ TOPICS = MakeTopics(TOPIC_ORDER, [t \in Range(TOPIC_ORDER) |-> 2])
    /\ config = DefaultConfig
    /\ \E present \in SUBSET Users :
          /\ user_sessions \in [present -> Sessions(TOPIC_ORDER, TOPICS)]
          /\ session_ids = [u \in present |-> <<"main", u>>]
    /\ reply = NoReply
    /\ pipe = IdlePipe
    /\ detached = <<>>
    /\ threads = [t \in Threads |-> IdleThread]
    /\ process = "polling"
    /\ inbox = NoMessage
    /\ call = NoCall
    /\ SYNONYMS = SynonymTable

SpecThreads == InitThreads /\ [][Interleave]_vars

\* one message to handle_search or handle_text, under every setting of the
\* security switches, with the Oracle enabled; nobody or everybody has a session
InitMessage ==
    /\ TOPIC_ORDER = FullKnowledgeBase[1]
    /\ TOPICS = MakeTopics(FullKnowledgeBase[1], FullKnowledgeBase[2])
    /\ config \in SecurityConfigs
    /\ \E present \in {{}, Users} : user_sessions = [u \in present |-> NewSession]
    /\ reply = NoReply
    /\ pipe = IdlePipe
    /\ session_ids = <<>>
    /\ detached = <<>>
    /\ threads = [t \in Threads |-> IdleThread]
    /\ process = "polling"
    /\ inbox \in Messages
    /\ call = NoCall
    /\ SYNONYMS = SynonymTable

SpecMessage == InitMessage /\ [][HandleMessage]_vars

\* one function of the pipeline and its arguments; expand_with_synonyms is
\* called with every synonym table
InitFunctions ==
    /\ TOPIC_ORDER = FullKnowledgeBase[1]
    /\ TOPICS = MakeTopics(FullKnowledgeBase[1], FullKnowledgeBase[2])
    /\ config = DefaultConfig
    /\ user_sessions = <<>>
    /\ reply = NoReply
    /\ pipe = IdlePipe
    /\ session_ids = <<>>
    /\ detached = <<>>
    /\ threads = [t \in Threads |-> IdleThread]
    /\ process = "polling"
    /\ inbox = NoMessage
    /\ \/ /\ call \in NormalizeCalls \cup ScoreCalls \cup SearchCalls \cup FormatCalls
          /\ SYNONYMS = SynonymTable
       \/ call \in ExpandCalls /\ SYNONYMS \in SynonymTables

SpecFunctions == InitFunctions /\ [][CallFunction]_vars

\* the process from its start, over every knowledge base as written
InitStartup ==
    /\ \E kb \in KnowledgeBaseData :
          /\ TOPIC_ORDER = kb[1]
          /\ TOPICS = kb[2]
    /\ config = DefaultConfig
    /\ user_sessions = <<>>
    /\ reply = NoReply
    /\ pipe = IdlePipe
    /\ session_ids = <<>>
    /\ detached = <<>>
    /\ threads = [t \in Threads |-> IdleThread]
    /\ inbox = NoMessage
    /\ call = NoCall
    /\ SYNONYMS = SynonymTable
    /\ process = "importing"

NextStartup ==
    \/ import_knowledge_base
    \/ Navigate

SpecStartup == InitStartup /\ [][NextStartup]_vars

\* every user keeps sending texts with a continue word, and nothing else,
\* from the start of the process
NextAdvance == \E user_id \in Users : handle_text_continue(user_id)

SpecAdvance ==
    /\ InitNav
    /\ [][NextAdvance]_vars
    /\ \A user_id \in Users : WF_vars(handle_text_continue(user_id))

(***************************************************************************)
(* Properties.                                                             *)
(***************************************************************************)
Invoked == pipe.pc # "idle"

Done == pipe.pc = "done"

Outcomes == {"curated", "ai_answer", "not_found"}

\* the top candidate's score lies in [min_relevance_score, high_relevance_score)
MediumTop ==
    /\ pipe.results # <<>>
    /\ pipe.results[1].score >= config.min_relevance_score
    /\ pipe.results[1].score < config.high_relevance_score

\* the top candidate's score is at least high_relevance_score
HighTop ==
    /\ pipe.results # <<>>
    /\ pipe.results[1].score >= config.high_relevance_score

\* C1: after any sequence of navigation operations every session's topic is an
\* identifier of TOPIC_ORDER and of TOPICS and its question index is a valid
\* 0-based index into that topic's entries.
C1_PositionValid ==
    \A u \in DOMAIN user_sessions :
        LET s == user_sessions[u] IN
        /\ s.current_topic \in Range(TOPIC_ORDER)
        /\ s.current_topic \in DOMAIN TOPICS
        /\ 0 <= s.current_question_index
        /\ s.current_question_index < ContentLen(s.current_topic)

\* a user was advanced to the last entry of the last of three topics, past index 0
C1_Witness ==
    \E u \in DOMAIN user_sessions :
        /\ Len(TOPIC_ORDER) = 3
        /\ user_sessions[u].current_topic = TOPIC_ORDER[3]
        /\ user_sessions[u].current_question_index = ContentLen(TOPIC_ORDER[3]) - 1
        /\ user_sessions[u].current_question_index > 0
        /\ reply = [user |-> u, op |-> "Advance", signal |-> "question"]

\* C2: a query whose trimmed length is below 2 yields the not-found message
\* and no request to the Oracle is made for it.
C2_ShortQueryNotFoundNoOracle ==
    (Invoked /\ Len(Strip(pipe.query)) < 2) =>
        /\ pipe.calls = <<>>
        /\ Done
        /\ pipe.sent = <<"not_found">>

\* C3: a top score at or above high_relevance_score shows the curated answer
\* at once, with no request to the Oracle.
C3_HighShowsCurated ==
    (Invoked /\ HighTop) =>
        /\ Done
        /\ pipe.sent = <<"curated">>
        /\ pipe.calls = <<>>
        /\ pipe.ai_response = "unset"

\* the top score equals the high threshold and the Oracle was available
C3_Witness ==
    /\ Done
    /\ pipe.results # <<>>
    /\ pipe.results[1].score = config.high_relevance_score
    /\ config.ai_enabled /\ config.client /\ config.use_ai_relevance_check
    /\ pipe.sent = <<"curated">>

\* C4: medium top score and verification not confirmed (not relevant, or
\* unavailable / error): the generative fallback is attempted; its answer is
\* sent if it gives one, otherwise the curated answer; never not-found.
C4_UnverifiedDegrades ==
    (Invoked /\ MediumTop /\ pipe.is_relevant \in {"False", "None"}) =>
        /\ pipe.ai_response # "unset" \/ pipe.pc = "ask_ai"
        /\ "not_found" \notin Range(pipe.sent)
        /\ Done => /\ pipe.ai_response = "answer" => pipe.sent = <<"ai_answer">>
                   /\ pipe.ai_response # "answer" => pipe.sent = <<"curated">>

\* the Oracle answered not relevant, the fallback request failed, the curated answer was sent
C4_Witness ==
    /\ Done /\ MediumTop
    /\ pipe.responses = <<"no", "error">>
    /\ pipe.is_relevant = "False"
    /\ pipe.sent = <<"curated">>

\* C5: medium top score and the Oracle answers relevant: the curated answer
\* is sent and the generative fallback is not invoked.
C5_VerifiedShowsCurated ==
    (Invoked /\ MediumTop /\ pipe.responses # <<>> /\ pipe.calls[1] = "check_relevance"
       /\ pipe.responses[1] = "yes") =>
        /\ Done
        /\ pipe.sent = <<"curated">>
        /\ pipe.calls = <<"check_relevance">>
        /\ pipe.ai_response = "unset"

\* the Oracle confirmed a medium candidate while the fallback was switched on
C5_Witness ==
    /\ Done /\ MediumTop
    /\ pipe.responses = <<"yes">>
    /\ config.use_fallback
    /\ pipe.sent = <<"curated">>

\* the query is scored: not rejected as too short and with at least one token
Scored(query) == ~TooShort(query) /\ Split(normalize_text(query)) # <<>>

\* some entry of the index scores at least min_relevance_score for the query
SomeEntryKept(query) ==
    LET all == ScoreAll(Split(normalize_text(query)), 1, 1) IN
    \E i \in 1..Len(all) : all[i].score >= config.min_relevance_score

\* C6: the outcome is not-found exactly when the kept set is empty and the
\* generative fallback gave no answer; with an empty kept set and an answer,
\* the answer is sent; with a kept entry the outcome is never not-found.  For
\* a scored query the kept set is empty exactly when no entry scores at least
\* min_relevance_score.
C6_NotFoundExactly ==
    /\ Done =>
        /\ (pipe.sent = <<"not_found">>) <=>
               (pipe.results = <<>> /\ pipe.ai_response # "answer")
        /\ (pipe.results = <<>> /\ pipe.ai_response = "answer") =>
               pipe.sent = <<"ai_answer">>
    /\ pipe.results # <<>> => "not_found" \notin Range(pipe.sent)
    /\ (Invoked /\ Scored(pipe.query)) =>
           ((pipe.results = <<>>) <=> ~SomeEntryKept(pipe.query))

\* a scored query kept nothing, the fallback answered with an empty text
C6_Witness ==
    /\ Done
    /\ Scored(pipe.query)
    /\ pipe.results = <<>>
    /\ pipe.responses = <<"empty">>
    /\ pipe.sent = <<"not_found">>

\* C7 as stated: at most one request to the Oracle per invocation.
C7_AtMostOneOracleCall == Len(pipe.calls) <= 1

\* C7 amended: at most one verification request and at most one fallback
\* request, in that order; both only on the medium branch after a
\* verification that did not confirm.
C7_AtMostOneCallOfEachKind ==
    /\ pipe.calls \in { <<>>, <<"check_relevance">>, <<"ask_ai">>,
                        <<"check_relevance", "ask_ai">> }
    /\ Len(pipe.calls) = 2 => (MediumTop /\ pipe.is_relevant \in {"False", "None"})

\* an invocation that has sent both requests and returned
C7_Witness ==
    /\ Done
    /\ pipe.calls = <<"check_relevance", "ask_ai">>
    /\ pipe.responses = <<"error", "text">>

\* C8: whatever the Oracle responds, no exception leaves the invocation, a
\* request that gets a response lets the invocation go on, and a finished
\* invocation has sent exactly one outcome (nothing is sent before).
C8_OneOutcomeNoRaise ==
    /\ ~pipe.raised
    /\ Done => (Len(pipe.sent) = 1 /\ pipe.sent[1] \in Outcomes)
    /\ pipe.pc \in Waiting => pipe.sent = <<>>
    /\ (pipe.pc \in Waiting /\ ~pipe.hung) =>
           ENABLED (check_relevance_returns \/ ask_ai_returns)

\* both requests failed with an error and one outcome was sent
C8_Witness ==
    /\ Done
    /\ pipe.responses = <<"error", "error">>
    /\ ~pipe.raised
    /\ pipe.sent = <<"curated">>

\* C9: an invocation blocked in a request to the Oracle can always go on,
\* also when the request never returns (a timeout ends the wait).
C9_HungCallTimesOut ==
    pipe.pc \in Waiting => ENABLED (check_relevance_returns \/ ask_ai_returns)

\* C10: with use_ai_relevance_check off, a non-empty kept set yields the top
\* curated answer and no verification request, whatever ai_enabled and client.
C10_CheckOffShowsCurated ==
    (Invoked /\ ~config.use_ai_relevance_check /\ pipe.results # <<>>) =>
        /\ Done
        /\ pipe.sent = <<"curated">>
        /\ "check_relevance" \notin Range(pipe.calls)

\* a medium candidate shown with the check off and the Oracle available
C10_Witness ==
    /\ Done /\ MediumTop
    /\ ~config.use_ai_relevance_check
    /\ config.ai_enabled /\ config.client /\ config.use_fallback
    /\ pipe.is_relevant = "True"
    /\ pipe.sent = <<"curated">>

\* C11: under every interleaving of the handlers' statements a running
\* handler's session is the object stored under its user in user_sessions,
\* so two handlers of one user hold the same object.
C11_OneSessionObject ==
    \A t \in Threads :
        threads[t].session # NoObject =>
            /\ threads[t].user \in DOMAIN session_ids
            /\ session_ids[threads[t].user] = threads[t].session

\* C12: get_user_session for an id without a session adds one at ("start", 0),
\* the first topic, with previous_state None, and leaves every other entry as
\* it is; for an id with a session the dictionary and the session it returns
\* are unchanged; each id has an entry of its own.
C12_GetOrCreate ==
    \A user_id \in Users :
        LET after == get_user_session(user_sessions, user_id) IN
        /\ user_id \notin DOMAIN user_sessions =>
              /\ after[user_id] = [current_topic |-> "start", current_question_index |-> 0,
                                   previous_state |-> "None"]
              /\ after[user_id].current_topic = TOPIC_ORDER[1]
              /\ DOMAIN after = DOMAIN user_sessions \cup {user_id}
              /\ \A other \in DOMAIN user_sessions : after[other] = user_sessions[other]
        /\ user_id \in DOMAIN user_sessions =>
              /\ after = user_sessions
              /\ after[user_id] = user_sessions[user_id]

\* one user has a session that a handler moved off ("start", 0), the other has none
C12_Witness ==
    /\ DOMAIN user_sessions = {"u1"}
    /\ user_sessions["u1"].current_topic # "start"
    /\ user_sessions["u1"].current_question_index > 0
    /\ reply.user = "u1"

\* the session a handler for user u works on: the stored one, or a new one
SessionBefore(u) == get_user_session(user_sessions, u)[u]

\* this step is the handler for operation op of user u
Did(u, op) == reply'.user = u /\ reply'.op = op

\* after this step user u is at (topic, index) and was shown that question
Lands(u, topic, index) ==
    /\ u \in DOMAIN user_sessions'
    /\ user_sessions'[u].current_topic = topic
    /\ user_sessions'[u].current_question_index = index
    /\ reply'.signal = "question"

\* this step leaves the topic and the question index of user u as they were
Stays(u) ==
    /\ u \in DOMAIN user_sessions'
    /\ user_sessions'[u].current_topic = SessionBefore(u).current_topic
    /\ user_sessions'[u].current_question_index = SessionBefore(u).current_question_index

\* C13: Start (/start, the Start button) and Home put the user at the first
\* topic of TOPIC_ORDER, index 0, from every state, and are always possible.
C13_StartHomeReset ==
    /\ [](\A u \in Users : ENABLED send_welcome(u) /\ ENABLED go_home(u))
    /\ [][\A u \in Users :
             (Did(u, "Start") \/ Did(u, "Home")) => Lands(u, TOPIC_ORDER[1], 0)]_vars

\* Home was the last operation, in a course of three topics, while the other
\* user stays where he went
C13_Witness ==
    /\ Len(TOPIC_ORDER) = 3
    /\ reply = [user |-> "u1", op |-> "Home", signal |-> "question"]
    /\ user_sessions["u1"].current_topic = TOPIC_ORDER[1]
    /\ user_sessions["u1"].current_question_index = 0
    /\ "u2" \in DOMAIN user_sessions
    /\ user_sessions["u2"].current_topic = TOPIC_ORDER[3]

\* C14: NextTopic in a state whose topic is not the last of TOPIC_ORDER,
\* whatever the question index, leads to the next topic of TOPIC_ORDER at index 0.
C14_NextTopicSuccessor ==
    [][\A u \in Users :
          (Did(u, "NextTopic")
             /\ TopicIndex(SessionBefore(u).current_topic) < Len(TOPIC_ORDER)) =>
          Lands(u, TOPIC_ORDER[TopicIndex(SessionBefore(u).current_topic) + 1], 0)]_vars

\* NextTopic has led to the third topic, whose second entry exists
C14_Witness ==
    /\ Len(TOPIC_ORDER) = 3
    /\ ContentLen(TOPIC_ORDER[2]) >= 2
    /\ reply = [user |-> "u1", op |-> "NextTopic", signal |-> "question"]
    /\ user_sessions["u1"].current_topic = TOPIC_ORDER[3]
    /\ user_sessions["u1"].current_question_index = 0

\* C15: PrevTopic in a state whose topic is not the first of TOPIC_ORDER leads
\* to the preceding topic at its LAST index (entry count minus one), not 0.
C15_PrevTopicLandsOnLast ==
    [][\A u \in Users :
          (Did(u, "PrevTopic") /\ TopicIndex(SessionBefore(u).current_topic) > 1) =>
          LET prev_topic == TOPIC_ORDER[TopicIndex(SessionBefore(u).current_topic) - 1]
          IN Lands(u, prev_topic, ContentLen(prev_topic) - 1)]_vars

BoundarySignals == {"already_at_start", "first_question", "course_complete"}

\* C16: a handler that reports a boundary signal leaves the session's topic
\* and question index unchanged, and the signals are reported at the
\* boundaries: "already at start" by PrevTopic at the first topic and by
\* Retreat at its index 0, "first question" by PrevQuestion at index 0,
\* "course complete" by NextTopic at the last topic and by Advance at its end.
C16_BoundaryKeepsPosition ==
    [][\A u \in Users :
          (reply'.user = u /\ reply'.signal \in BoundarySignals) =>
          LET s == SessionBefore(u) IN
          /\ Stays(u)
          /\ reply'.signal = "already_at_start" =>
                /\ reply'.op \in {"PrevTopic", "Retreat"}
                /\ s.current_topic = TOPIC_ORDER[1]
                /\ reply'.op = "Retreat" => s.current_question_index = 0
          /\ reply'.signal = "first_question" =>
                /\ reply'.op = "PrevQuestion"
                /\ s.current_question_index = 0
          /\ reply'.signal = "course_complete" =>
                /\ reply'.op \in {"NextTopic", "Advance"}
                /\ s.current_topic = TOPIC_ORDER[Len(TOPIC_ORDER)]
                /\ reply'.op = "Advance" =>
                      s.current_question_index = ContentLen(s.current_topic) - 1]_vars

\* PrevQuestion was refused at index 0 of a topic that is not the first
C16_Witness ==
    /\ reply = [user |-> "u1", op |-> "PrevQuestion", signal |-> "first_question"]
    /\ user_sessions["u1"].current_topic = TOPIC_ORDER[Len(TOPIC_ORDER)]
    /\ Len(TOPIC_ORDER) = 3
    /\ user_sessions["u1"].current_question_index = 0

\* C17: Advance at the last index of the topic does what NextTopic does (the
\* next topic at index 0, or "course complete" and no change at the last
\* topic); elsewhere it adds exactly one to the question index and keeps the topic.
C17_AdvanceStep ==
    [][\A u \in Users :
          Did(u, "Advance") =>
          LET s == SessionBefore(u)
              current_index == TopicIndex(s.current_topic)
          IN IF s.current_question_index = ContentLen(s.current_topic) - 1
             THEN IF current_index < Len(TOPIC_ORDER)
                  THEN Lands(u, TOPIC_ORDER[current_index + 1], 0)
                  ELSE Stays(u) /\ reply'.signal = "course_complete"
             ELSE Lands(u, s.current_topic, s.current_question_index + 1)]_vars

\* Advance has moved from index 1 to index 2 inside the second topic
C17_Witness ==
    /\ reply = [user |-> "u1", op |-> "Advance", signal |-> "question"]
    /\ Len(TOPIC_ORDER) >= 2
    /\ user_sessions["u1"].current_topic = TOPIC_ORDER[2]
    /\ user_sessions["u1"].current_question_index = 2

\* C18: PrevQuestion, and Retreat, at a question index above 0 take exactly
\* one from the question index and keep the topic.
C18_StepBack ==
    [][\A u \in Users :
          ((Did(u, "PrevQuestion") \/ Did(u, "Retreat"))
             /\ SessionBefore(u).current_question_index > 0) =>
          Lands(u, SessionBefore(u).current_topic,
                SessionBefore(u).current_question_index - 1)]_vars

\* PrevQuestion has moved to index 1 of a topic of three entries
C18_Witness ==
    /\ reply = [user |-> "u1", op |-> "PrevQuestion", signal |-> "question"]
    /\ ContentLen(user_sessions["u1"].current_topic) = 3
    /\ user_sessions["u1"].current_question_index = 1
    /\ user_sessions["u1"].current_topic # "start"

\* operation a of user u can be taken and ends with a question or a boundary signal
Completes(a) == ENABLED a /\ ~ENABLED (a /\ reply'.signal = "error")

\* C19: no state is terminal: in every reachable state every navigation
\* operation of every user completes, with a question or a boundary signal,
\* and Home leads to (first topic, 0).
C19_NoTerminalState ==
    \A u \in Users :
        /\ Completes(send_welcome(u))
        /\ Completes(go_home(u))
        /\ Completes(go_back(u))
        /\ Completes(prev_question(u))
        /\ Completes(next_topic(u))
        /\ Completes(handle_text_continue(u))
        /\ Completes(handle_text_back(u))
        /\ ENABLED (go_home(u) /\ Lands(u, TOPIC_ORDER[1], 0))

\* the end of the course: Advance at the last entry of the last topic
C19_Witness ==
    /\ Len(TOPIC_ORDER) = 3
    /\ reply = [user |-> "u2", op |-> "Advance", signal |-> "course_complete"]
    /\ user_sessions["u2"].current_topic = TOPIC_ORDER[3]
    /\ user_sessions["u2"].current_question_index = ContentLen(TOPIC_ORDER[3]) - 1
    /\ ContentLen(TOPIC_ORDER[3]) = 3

\* the user whose handler thread t runs in this step
ServedBy(t) == IF threads[t].pc = "idle" THEN threads'[t].user ELSE threads[t].user

\* this step leaves everything of user b's sessions as it was: the entry of
\* user_sessions, the object stored there, and the objects out of the dictionary
SessionUntouched(b) ==
    /\ (b \in DOMAIN user_sessions') <=> (b \in DOMAIN user_sessions)
    /\ b \in DOMAIN user_sessions =>
          /\ user_sessions'[b] = user_sessions[b]
          /\ session_ids'[b] = session_ids[b]
    /\ \A id \in DOMAIN detached' :
          id[2] = b => (id \in DOMAIN detached /\ detached'[id] = detached[id])

\* C20: a statement of a handler (a navigation operation or a query) running
\* for user a never changes the session of another user b, however the
\* statements of the two users' handlers interleave.
C20_OtherUserUntouched ==
    [][\A t \in Threads :
          threads'[t] # threads[t] =>
          \A b \in Users \ {ServedBy(t)} : SessionUntouched(b)]_vars

\* two handlers for different users are both past their stores, and the two
\* users are at different positions
C20_Witness ==
    /\ threads["t1"].pc = "show_question:309" /\ threads["t1"].user = "u1"
    /\ threads["t2"].pc = "show_question:309" /\ threads["t2"].user = "u2"
    /\ threads["t1"].op = "Advance" /\ threads["t2"].op = "Home"
    /\ user_sessions["u1"].current_question_index = 1
    /\ user_sessions["u2"].current_question_index = 0
    /\ user_sessions["u1"].current_topic # user_sessions["u2"].current_topic

\* the retrieval pipeline has been entered: process_search_results took a branch
InPipeline(p) == p.branch # "none"

\* C21: a step of the retrieval pipeline (search_in_knowledge_base and
\* process_search_results in handle_search or handle_text, and every later
\* step of that invocation up to its return) leaves every user session and
\* the knowledge index (TOPICS, TOPIC_ORDER, SYNONYMS) unchanged.
C21_RetrievalLeavesSessionsAndIndex ==
    [][(InPipeline(pipe) \/ InPipeline(pipe')) =>
          UNCHANGED <<user_sessions, session_ids, detached, TOPICS, TOPIC_ORDER, SYNONYMS>>]_vars

\* a free-text question went through retrieval, verification and the
\* generative fallback while both users had a session
C21_Witness ==
    /\ inbox.handler = "handle_text"
    /\ pipe.pc = "done"
    /\ pipe.branch = "medium"
    /\ pipe.calls = <<"check_relevance", "ask_ai">>
    /\ DOMAIN user_sessions = Users

\* the text the handler hands to validate_and_sanitize_input
RawText ==
    IF inbox.handler = "handle_search" THEN raw_query_of(inbox.text) ELSE inbox.text

\* what security.sanitize_input makes of that text
Sanitized ==
    sanitize_input(RawText,
                   IF inbox.handler = "handle_search" THEN config.max_search_length
                   ELSE config.max_query_length,
                   config.enable_prompt_injection_detection)

\* C22: with enable_input_sanitization on, in handle_search and in
\* handle_text alike, retrieval and every request to the Oracle happen only
\* when sanitize_input has accepted the text, and on the sanitized text; when
\* it rejects the text the handler sends the error reply and returns, with no
\* retrieval and no request to the Oracle.
C22_SanitizedBeforeRetrieval ==
    (config.enable_input_sanitization /\ pipe.pc # "idle") =>
        LET sanitized == Sanitized IN
        /\ (InPipeline(pipe) \/ pipe.calls # <<>> \/ pipe.results # <<>>) =>
              /\ sanitized.valid
              /\ pipe.sanitizer = "accepted"
              /\ pipe.query = sanitized.text
        /\ (RawText # <<>> /\ ~sanitized.valid) => pipe.sanitizer = "rejected"
        /\ pipe.sanitizer = "rejected" =>
              /\ pipe.pc = "done"
              /\ pipe.sent = <<"invalid">>
              /\ ~InPipeline(pipe)
              /\ pipe.results = <<>>
              /\ pipe.calls = <<>>

\* a /search query that the sanitizer changed has reached the Oracle
C22_Witness ==
    /\ config.enable_input_sanitization
    /\ inbox.handler = "handle_search"
    /\ pipe.query # RawText
    /\ pipe.calls # <<>>

\* a free text that the sanitizer rejected has got the error reply
C22_WitnessRejected ==
    /\ config.enable_input_sanitization
    /\ inbox.handler = "handle_text"
    /\ pipe.sanitizer = "rejected"
    /\ pipe.sent = <<"invalid">>

\* search_in_knowledge_base has been called on its own, and has returned
Searched == call.function = "search_in_knowledge_base" /\ call.returned # <<>>

\* the query of the call was scored: it passed the length test and has words
QueryScored ==
    /\ ~TooShort(call.query)
    /\ Split(normalize_text(call.query)) # <<>>

\* every entry with its score for the query of the call
EntryScores == ScoreAll(Split(normalize_text(call.query)), 1, 1)

\* C23 as stated: an entry whose score is exactly min_relevance_score is in
\* the results search_in_knowledge_base returns for the query, and an entry
\* whose score is below min_relevance_score never is.
C23_MinScoreReturned ==
    (Searched /\ QueryScored) =>
        LET scores == EntryScores IN
        \A i \in 1..Len(scores) :
            LET e == scores[i] IN
            /\ e.score = config.min_relevance_score => InList(e, call.returned[1])
            /\ e.score < config.min_relevance_score => ~InList(e, call.returned[1])

\* C23, amended: an entry whose score is exactly min_relevance_score is in
\* the results unless max_results entries that score at least as much are
\* returned in its place, and an entry whose score is below
\* min_relevance_score never is.
C23_MinScoreKept ==
    (Searched /\ QueryScored) =>
        LET results == call.returned[1]
            scores == EntryScores
        IN
        \A i \in 1..Len(scores) :
            LET e == scores[i] IN
            /\ e.score = config.min_relevance_score =>
                  \/ InList(e, results)
                  \/ /\ Len(results) = config.max_results
                     /\ \A j \in 1..Len(results) : results[j].score >= e.score
            /\ e.score < config.min_relevance_score => ~InList(e, results)

\* an entry scoring exactly the minimum is returned, one scoring less is not
C23_Witness ==
    /\ Searched
    /\ QueryScored
    /\ LET scores == EntryScores IN
       /\ \E i \in 1..Len(scores) :
             /\ scores[i].score = config.min_relevance_score
             /\ InList(scores[i], call.returned[1])
       /\ \E i \in 1..Len(scores) :
             /\ scores[i].score > 0
             /\ scores[i].score < config.min_relevance_score

\* C24: two calls of search_in_knowledge_base with the same query and the
\* same knowledge base return the same results in the same order, whatever
\* the order in which the set expanded_query yields its words in each call.
C24_SameResultsTwice ==
    (call.function = "search_in_knowledge_base" /\ Len(call.returned) = 2) =>
        call.returned[2] = call.returned[1]

\* a query with several expanded words was searched twice, and two results tie
C24_Witness ==
    /\ call.function = "search_in_knowledge_base"
    /\ Len(call.returned) = 2
    /\ Cardinality(expand_with_synonyms(Split(normalize_text(call.query)))) >= 2
    /\ Len(call.returned[1]) >= 2
    /\ call.returned[1][1].score = call.returned[1][2].score

\* normalize_text has been called on a text, and again on what it returned
NormalizedTwice == call.function = "normalize_text" /\ Len(call.returned) = 2

\* C28: normalize_text is idempotent: normalize_text(normalize_text(x)) is
\* normalize_text(x) for every text x.
C28_NormalizeIdempotent ==
    NormalizedTwice => call.returned[2] = call.returned[1]

\* a text with a capital, punctuation and spaces at both ends was normalized twice
C28_Witness ==
    /\ NormalizedTwice
    /\ call.text = <<" ", "B", "?">>
    /\ call.returned[1] = <<"b">>

\* characters that are lowercase letters or digits
LowercaseOrDigit == LowerLetters \cup CyrillicLower \cup Digits

\* C29: what normalize_text returns contains only lowercase letters, digits
\* and single spaces, with no space at either end and no two spaces in a
\* row, and it returns the empty text for the empty text.
C29_NormalizedAlphabet ==
    (call.function = "normalize_text" /\ call.returned # <<>>) =>
        LET out == call.returned[1] IN
        /\ \A i \in 1..Len(out) : out[i] \in LowercaseOrDigit \cup {" "}
        /\ out # <<>> => out[1] # " " /\ out[Len(out)] # " "
        /\ \A i \in 1..(Len(out) - 1) : ~(out[i] = " " /\ out[i + 1] = " ")
        /\ call.text = <<>> => out = <<>>

\* expand_with_synonyms has been called on its own, and has returned
Expanded == call.function = "expand_with_synonyms" /\ call.returned # <<>>

\* w is listed in the table as a synonym of t
ListedFor(t, w) == t \in DOMAIN SYNONYMS /\ InList(w, SYNONYMS[t])

\* C30: expand_with_synonyms(T) holds exactly the words of T and the words
\* the table lists for a word of T: every word of T is in it, a word of T
\* that is not a key adds nothing, a synonym is not expanded in its turn, and
\* the call leaves the table as it was.
C30_ExpandOneLevel ==
    /\ [](Expanded =>
            LET T == Range(call.words)
                expanded == call.returned[1]
            IN /\ T \subseteq expanded
               /\ \A w \in expanded : w \in T \/ \E t \in T : ListedFor(t, w)
               /\ \A t \in T : \A w \in ExpandWords : ListedFor(t, w) => w \in expanded
               /\ (T \cap DOMAIN SYNONYMS = {}) => expanded = T)
    /\ [][call.function = "expand_with_synonyms" => SYNONYMS' = SYNONYMS]_vars

\* "b" was expanded to "a"; the table lists "c" for "a", and "c" was not added
C30_Witness ==
    /\ Expanded
    /\ call.words = << <<"b">> >>
    /\ DOMAIN SYNONYMS = { <<"a">>, <<"b">> }
    /\ SYNONYMS[<<"b">>] = << <<"a">> >>
    /\ SYNONYMS[<<"a">>] = << <<"c">> >>
    /\ call.returned[1] = { <<"a">>, <<"b">> }

\* calculate_relevance_score has been called on its own, and has returned
Scoring == call.function = "calculate_relevance_score" /\ call.returned # <<>>

\* C25: appending to the query words a token that occurs in the entry's
\* question text never lowers the entry's score: score(Q + [t]) >= score(Q).
C25_MoreTokensNeverLower ==
    (Scoring /\ Contains(call.token, normalize_text(call.question_data.question))) =>
        call.returned[1].with_token >= call.returned[1].score

\* C26: for a query that contains the token t, adding t to the entry's
\* keywords never decreases the entry's score for the query.
C26_KeywordNeverLowers ==
    (Scoring /\ InList(call.token, call.query_words)) =>
        call.returned[1].with_keyword >= call.returned[1].score

\* a word of the query was added to an entry that has another keyword, and
\* the score rose by the keyword weight
C26_Witness ==
    /\ Scoring
    /\ InList(call.token, call.query_words)
    /\ call.question_data.keywords # <<>>
    /\ call.returned[1].with_keyword = call.returned[1].score + 8

\* the words of the query, joined by spaces, occur in the normalized question
FullPhraseInQuestion ==
    Contains(Join(call.query_words), normalize_text(call.question_data.question))

\* what the loop over expanded_query and the all-words bonus add to the score
TokenLevelScore ==
    LET e == call.question_data IN
      WordScores(expand_with_synonyms(call.query_words), normalize_text(e.question),
                 e.keywords, normalize_text(e.answer), normalize_text(call.topic_name))
    + AllWordsBonus(call.query_words, normalize_text(e.question))

\* C27: whenever the words of the query, joined by spaces, occur in the
\* entry's normalized question text, the entry's score is at least 20, and
\* that before anything the single words add.
C27_FullPhraseScoresTwenty ==
    (Scoring /\ FullPhraseInQuestion) =>
        /\ call.returned[1].score >= 20
        /\ call.returned[1].score - TokenLevelScore >= 20

\* a query of two words occurs in a longer question that has no answer
C27_Witness ==
    /\ Scoring
    /\ FullPhraseInQuestion
    /\ Len(call.query_words) = 2
    /\ Join(call.query_words) # normalize_text(call.question_data.question)
    /\ call.question_data.answer = <<>>
    /\ call.returned[1].score - TokenLevelScore = 20

(***************************************************************************)
(* C31: for every result, the text produced by format_response_from_db is  *)
(* at most 4000 characters long, and when the untruncated text is longer   *)
(* than 4000 characters the output contains the truncation marker.         *)
(***************************************************************************)
Formatted == call.function = "format_response_from_db" /\ call.returned # <<>>

C31_FormattedWithinLimit ==
    Formatted =>
        LET response == call.returned[1] IN
        /\ Len(response) <= RESPONSE_LIMIT
        /\ Len(Untruncated(call.result)) > RESPONSE_LIMIT
              => Contains(TRUNCATION_MARKER, response)

TierPoints(tokens, text, full, three, two) ==
    LET Phrase(n) == Join(SubSeq(tokens, 1, n))
        won == {0}
               \cup { full : n \in { n \in {Len(tokens)} : Contains(Phrase(n), text) } }
               \cup { three : n \in { n \in {3} : n <= Len(tokens) /\ Contains(Phrase(n), text) } }
               \cup { two : n \in { n \in {2} : n <= Len(tokens) /\ Contains(Phrase(n), text) } }
    IN CHOOSE p \in won : \A q \in won : q <= p

\* the tokens and, for each token that is a key of the table, its synonyms
SynonymExpanded(tokens) ==
    Range(tokens) \cup { s \in UNION { Range(SYNONYMS[k]) : k \in DOMAIN SYNONYMS } :
                          \E k \in Range(tokens) \cap DOMAIN SYNONYMS : InList(s, SYNONYMS[k]) }

\* the sum the claim states
StatedScore(tokens, entry, topic_name) ==
    LET question == normalize_text(entry.question)
        answer == normalize_text(entry.answer)
        topic == normalize_text(topic_name)
        keyword_set == { normalize_text(entry.keywords[i]) : i \in 1..Len(entry.keywords) }
        expanded == SynonymExpanded(tokens)
    IN   TierPoints(tokens, question, 20, 15, 12)
       + TierPoints(tokens, answer, 10, 7, 5)
       + 5 * Cardinality({ t \in expanded : Contains(t, question) })
       + 8 * Cardinality(expanded \cap keyword_set)
       + 2 * Cardinality({ t \in expanded : Contains(t, answer) })
       + 3 * Cardinality({ t \in expanded : Contains(t, topic) })
       + (IF tokens # <<>> /\ \A t \in Range(tokens) : Contains(t, question) THEN 10 ELSE 0)

C33_ScoreIsStatedSum ==
    Scoring =>
        LET longer == Append(call.query_words, call.token) IN
        /\ call.returned[1].score
              = StatedScore(call.query_words, call.question_data, call.topic_name)
        /\ call.returned[1].with_token
              = StatedScore(longer, call.question_data, call.topic_name)
        /\ call.returned[1].score >= 0
        /\ call.returned[1].with_token >= 0

\* a query of four tokens whose first three, and not all four, are a phrase
\* of the question, with a token that has a synonym and an entry with a
\* keyword, an answer and a topic name that tokens are found in
C33_Witness ==
    /\ Scoring
    /\ LET longer == Append(call.query_words, call.token)
           question == normalize_text(call.question_data.question)
       IN /\ Len(longer) = 4
          /\ ~Contains(Join(longer), question)
          /\ Contains(Join(call.query_words), question)
          /\ \E t \in Range(longer) : t \in DOMAIN SYNONYMS
          /\ call.question_data.keywords # <<>>
          /\ call.question_data.answer # <<>>
          /\ call.topic_name = <<"a">>
          /\ TierPoints(longer, normalize_text(call.question_data.answer), 10, 7, 5) = 7
          /\ call.returned[1].with_token > 15 + 7

(***************************************************************************)
(* C34: search_in_knowledge_base returns its results in non-increasing     *)
(* score order, and among entries of equal score the one that comes first  *)
(* in the index order (earlier topic in TOPIC_ORDER, then earlier entry of *)
(* the topic) is ranked first, so it is the one chosen as top candidate.   *)
(***************************************************************************)
\* a comes before b in the index order
EarlierInIndex(a, b) ==
    \/ TopicIndex(a.topic_key) < TopicIndex(b.topic_key)
    \/ a.topic_key = b.topic_key /\ a.entry < b.entry

C35_RetreatAtFirstIsPrevTopic ==
    [][\A u \in Users :
          (Did(u, "Retreat") /\ SessionBefore(u).current_question_index = 0) =>
          \E sessions \in {user_sessions'}, signal \in {reply'.signal} :
             ENABLED (/\ go_back(u)
                      /\ user_sessions' = sessions
                      /\ reply'.signal = signal)]_vars

(***************************************************************************)
(* C36: Advance and Retreat are mutual inverses wherever they move: if     *)
(* Advance changes the session from s to s' then Retreat applied in s'     *)
(* restores s, and if Retreat changes the session from s to s' then        *)
(* Advance applied in s' restores s, also across topic boundaries.         *)
(***************************************************************************)
\* this step changes the session of user u
Moves(u) == user_sessions'[u] # SessionBefore(u)

C36_AdvanceRetreatInverse ==
    [][\A u \in Users :
          /\ (Did(u, "Advance") /\ Moves(u)) =>
                \E s \in {SessionBefore(u)} :
                   (ENABLED (handle_text_back(u) /\ user_sessions'[u] = s))'
          /\ (Did(u, "Retreat") /\ Moves(u)) =>
                \E s \in {SessionBefore(u)} :
                   (ENABLED (handle_text_continue(u) /\ user_sessions'[u] = s))']_vars

\* Retreat has moved from the first question of the second topic to the
\* last question of the first topic, which has several questions
C36_Witness ==
    /\ reply = [user |-> "u1", op |-> "Retreat", signal |-> "question"]
    /\ Len(TOPIC_ORDER) >= 2
    /\ ContentLen(TOPIC_ORDER[1]) >= 2
    /\ user_sessions["u1"].current_topic = TOPIC_ORDER[1]
    /\ user_sessions["u1"].current_question_index = ContentLen(TOPIC_ORDER[1]) - 1

(***************************************************************************)
(* C37: starting from (first topic, 0), repeatedly applying Advance visits *)
(* every valid (topic, question index) pair exactly once, in TOPIC_ORDER   *)
(* and entry order, reaches (last topic, last index) after finitely many   *)
(* steps, and every further Advance stays there with the course-complete   *)
(* signal.                                                                 *)
(***************************************************************************)
\* the number of entries of the first n topics of TOPIC_ORDER
RECURSIVE EntriesOfFirst(_)
EntriesOfFirst(n) ==
    IF n = 0 THEN 0 ELSE EntriesOfFirst(n - 1) + ContentLen(TOPIC_ORDER[n])

\* the place of the pair (topic, index) in the index order, from 0
IndexRank(s) == EntriesOfFirst(TopicIndex(s.current_topic) - 1) + s.current_question_index

\* a valid (topic, question index) pair
ValidPair(s) ==
    /\ TopicIndex(s.current_topic) >= 1
    /\ s.current_question_index \in 0..(ContentLen(s.current_topic) - 1)

\* user u is at (last topic, last index)
AtLast(u) ==
    /\ u \in DOMAIN user_sessions
    /\ ValidPair(user_sessions[u])
    /\ IndexRank(user_sessions[u]) = EntriesOfFirst(Len(TOPIC_ORDER)) - 1

\* every Advance goes to the next pair of the index order, or stays at the
\* last pair with the signal; the walk starts at the first pair; and the
\* last pair is reached and kept
C37_AdvanceVisitsAllInOrder ==
    /\ [][\A u \in Users :
             Did(u, "Advance") =>
             LET before == SessionBefore(u) IN
             IF IndexRank(before) < EntriesOfFirst(Len(TOPIC_ORDER)) - 1
             THEN /\ ValidPair(user_sessions'[u])
                  /\ IndexRank(user_sessions'[u]) = IndexRank(before) + 1
                  /\ reply'.signal = "question"
             ELSE /\ Stays(u)
                  /\ reply'.signal = "course_complete"]_vars
    /\ \A u \in Users : ValidPair(SessionBefore(u)) /\ IndexRank(SessionBefore(u)) = 0
    /\ \A u \in Users : <>[]AtLast(u)

\* the user has gone through three topics of several entries to the last
\* pair, and a further Advance has reported the end of the course
C37_Witness ==
    /\ AtLast("u1")
    /\ reply = [user |-> "u1", op |-> "Advance", signal |-> "course_complete"]
    /\ Len(TOPIC_ORDER) = 3
    /\ \A t \in Range(TOPIC_ORDER) : ContentLen(t) >= 2

(***************************************************************************)
(* C38: when two handler invocations for the same user interleave (two     *)
(* Advance messages, or an Advance together with a NextTopic), the         *)
(* session's question index stays within the bounds of its current topic,  *)
(* so show_question never indexes past the end of a topic's entries.       *)
(***************************************************************************)
\* no session's index is at or past the number of entries of its topic, and
\* no handler has ended in the IndexError of show_question
C38_InterleavedIndexInBounds ==
    /\ \A u \in DOMAIN user_sessions :
          /\ user_sessions[u].current_topic \in DOMAIN TOPICS
          /\ user_sessions[u].current_question_index
                <= ContentLen(user_sessions[u].current_topic) - 1
    /\ \A t \in Threads : threads[t].signal # "error"


\* C39: handle_text dispatches a message to exactly one of, in this order:
\* Advance when the text contains a continue word; Retreat when it contains a
\* back word and no continue word; the sanitizer's rejection; the greeting or
\* thanks reply; retrieval.  A text with a continue or back word starts no
\* retrieval and no request to the Oracle, and a text with neither leaves
\* every session as it was.
C39_FreeTextDispatch ==
    [][(inbox.handler = "handle_text" /\ pipe.pc = "idle") =>
          LET user_input == LowerText(inbox.text)
              continues == AnyWordIn(continue_words, user_input)
              goes_back == AnyWordIn(back_words, user_input)
              v == validate_and_sanitize_input(inbox.text, FALSE, config)
          IN /\ continues => Did(inbox.user, "Advance") /\ pipe' = IdlePipe
             /\ (goes_back /\ ~continues) => Did(inbox.user, "Retreat") /\ pipe' = IdlePipe
             /\ (~continues /\ ~goes_back) =>
                   /\ UNCHANGED <<user_sessions, reply>>
                   /\ IF ~v.valid
                      THEN pipe'.sent = <<"invalid">> /\ ~InPipeline(pipe') /\ pipe'.calls = <<>>
                      ELSE IF AnyWordIn(greeting_words, user_input)
                              \/ AnyWordIn(thanks_words, user_input)
                      THEN /\ pipe'.sent \in {<<"greeting">>, <<"thanks">>}
                           /\ ~InPipeline(pipe')
                           /\ pipe'.calls = <<>>
                      ELSE InPipeline(pipe') /\ pipe'.query = v.text]_vars

\* a text with a continue word and a back word has moved the user's session
\* one question forward, and nothing was retrieved
C39_Witness ==
    /\ inbox.handler = "handle_text"
    /\ AnyWordIn(continue_words, LowerText(inbox.text))
    /\ AnyWordIn(back_words, LowerText(inbox.text))
    /\ reply = [user |-> inbox.user, op |-> "Advance", signal |-> "question"]
    /\ inbox.user \in DOMAIN user_sessions
    /\ user_sessions[inbox.user].current_question_index = 1
    /\ pipe = IdlePipe


\* C40: with min_relevance_score <= high_relevance_score, the results that
\* search_in_knowledge_base hands to process_search_results never take its
\* last branch (the generative fallback and the not-found message after the
\* medium-score test): a list with a result in it is decided by the
\* high-score or by the medium-score branch.
C40_LowBranchUnreachable ==
    (config.min_relevance_score <= config.high_relevance_score /\ pipe.pc # "idle") =>
        /\ pipe.branch # "low"
        /\ pipe.results # <<>> => pipe.branch \in {"high", "medium"}
        /\ pipe.results = <<>> => pipe.branch = "empty"

\* the best result scores exactly min_relevance_score, below
\* high_relevance_score, and the medium-score branch has taken it
C40_Witness ==
    /\ config.min_relevance_score <= config.high_relevance_score
    /\ pipe.results # <<>>
    /\ pipe.results[1].score = config.min_relevance_score
    /\ pipe.results[1].score < config.high_relevance_score
    /\ pipe.branch = "medium"
    /\ pipe.pc = "done"

=============================================================================
